---- MODULE Spec2Model ----
(***************************************************************************)
(* State-machine model of the SyncTeams workflow SDK: the transport layer  *)
(* (HttpClient.request: attempt loop, per-attempt timeout, backoff) and    *)
(* the orchestration layer (WorkflowClient.waitForCompletion and           *)
(* executeAndWait).  Each action is one run of the code between two        *)
(* suspension points (await of fetch, of a timer, of a handler).           *)
(***************************************************************************)
EXTENDS Integers, Sequences, FiniteSets, TLC

(* ------------------------------ bounds --------------------------------- *)

\* largest maxAttempts a caller passes in the model
MaxAttempts == 3

\* number of getTaskStatus calls after which the model starts no further poll
MaxPolls == 3

\* number of polling rounds of executeAndWait after which the model starts no further round
MaxRounds == 2

\* polls each of two interleaved waitForCompletion invocations makes at most
MaxPairPolls == 3

\* largest attempt number delayWithBackoff is applied to on its own
MaxBackoffAttempt == 5

(* ------------------------- constants of the code ----------------------- *)

WorkflowStatus == {"QUEUED", "PENDING", "RUNNING", "WAITING", "CANCELED", "FAILED", "COMPLETED"}

WAITING == "WAITING"

\* the default terminal set with WAITING in it
TERMINAL_STATUSES_withWaiting == {"COMPLETED", "FAILED", "CANCELED", "WAITING"}

TERMINAL_STATUSES == {"COMPLETED", "FAILED", "CANCELED"}

DEFAULT_REQUEST_TIMEOUT_MS == 30000

DEFAULT_POLL_INTERVAL_MS == 2000

DEFAULT_MAX_WAIT_TIME_MS == 10 * 60 * 1000

DEFAULT_RETRYABLE_STATUSES == {408, 425, 429}

range(start, endInclusive) == start..endInclusive

\* the value of a variable that holds no status yet (let lastStatus: WorkflowStatus | undefined)
undefined == "undefined"

(* ------------------------------ helpers -------------------------------- *)

Min(a, b) == IF a <= b THEN a ELSE b

Max(a, b) == IF a >= b THEN a ELSE b

RECURSIVE Pow(_, _)
Pow(base, exponent) == IF exponent = 0 THEN 1 ELSE base * Pow(base, exponent - 1)

\* a ?? b on an optional field f of the object r
Nullish(r, f, d) == IF f \in DOMAIN r THEN r[f] ELSE d

\* the object without fields
EmptyObject == [f \in {} |-> 0]

(* ------------------------------ retry policy --------------------------- *)

BuiltinRetry ==
  [maxAttempts |-> 3, initialDelayMs |-> 1000, backoffFactor |-> 2, maxDelayMs |-> 30000,
   retryOnStatuses |-> DEFAULT_RETRYABLE_STATUSES \cup range(500, 599)]

\* normalizeRetryConfig that falls back to the built-in policy whatever fallback it is given
normalizeRetryConfig_builtinOnly(retry, fallback) ==
  IF retry = << >> THEN BuiltinRetry
  ELSE LET r == retry[1]
       IN [maxAttempts |-> Max(Nullish(r, "maxAttempts", BuiltinRetry.maxAttempts), 1),
           initialDelayMs |-> Nullish(r, "initialDelayMs", BuiltinRetry.initialDelayMs),
           backoffFactor |-> Nullish(r, "backoffFactor", BuiltinRetry.backoffFactor),
           maxDelayMs |-> Nullish(r, "maxDelayMs", BuiltinRetry.maxDelayMs),
           retryOnStatuses |->
             IF "retryOnStatuses" \in DOMAIN r /\ r.retryOnStatuses # {}
               THEN r.retryOnStatuses ELSE BuiltinRetry.retryOnStatuses]

\* normalizeRetryConfig that takes an empty retryOnStatuses as it is given
normalizeRetryConfig_emptyDisables(retry, fallback) ==
  LET base == IF fallback = << >> THEN BuiltinRetry ELSE fallback[1]
  IN IF retry = << >> THEN base
     ELSE LET r == retry[1]
          IN [maxAttempts |-> Max(Nullish(r, "maxAttempts", base.maxAttempts), 1),
              initialDelayMs |-> Nullish(r, "initialDelayMs", base.initialDelayMs),
              backoffFactor |-> Nullish(r, "backoffFactor", base.backoffFactor),
              maxDelayMs |-> Nullish(r, "maxDelayMs", base.maxDelayMs),
              retryOnStatuses |-> Nullish(r, "retryOnStatuses", base.retryOnStatuses)]

\* retry and fallback are optional: << >> is undefined, <<r>> is the object r
normalizeRetryConfig(retry, fallback) ==
  LET base == IF fallback = << >> THEN BuiltinRetry ELSE fallback[1]
  IN IF retry = << >> THEN base
     ELSE LET r == retry[1]
          IN [maxAttempts |-> Max(Nullish(r, "maxAttempts", base.maxAttempts), 1),
              initialDelayMs |-> Nullish(r, "initialDelayMs", base.initialDelayMs),
              backoffFactor |-> Nullish(r, "backoffFactor", base.backoffFactor),
              maxDelayMs |-> Nullish(r, "maxDelayMs", base.maxDelayMs),
              retryOnStatuses |->
                IF "retryOnStatuses" \in DOMAIN r /\ r.retryOnStatuses # {}
                  THEN r.retryOnStatuses ELSE base.retryOnStatuses]

\* shouldRetry with every 5xx status retried whatever the policy says
shouldRetry_any5xx(status, retry) == status \in retry.retryOnStatuses \/ status >= 500

shouldRetry(status, retry) == status \in retry.retryOnStatuses

\* delayWithBackoff with the exponent one too high
delayWithBackoff_nextExponent(attempt, retry) ==
  Min(retry.initialDelayMs * Pow(retry.backoffFactor, attempt), retry.maxDelayMs)

\* delayWithBackoff without the cap at maxDelayMs
delayWithBackoff_uncapped(attempt, retry) ==
  retry.initialDelayMs * Pow(retry.backoffFactor, Max(0, attempt - 1))

\* the delay delayWithBackoff sleeps after attempt number attempt
delayWithBackoff(attempt, retry) ==
  LET exponent == Max(0, attempt - 1)
      rawDelay == retry.initialDelayMs * Pow(retry.backoffFactor, exponent)
  IN Min(rawDelay, retry.maxDelayMs)

(* ------------------------------ errors --------------------------------- *)

\* an error value: its class name, its message as a sequence of text pieces,
\* and for a WorkflowAPIError its status, statusText, data and cause
NoCause == << >>

NoData == [taskId |-> "", lastStatus |-> ""]

ErrorValue(name, message) ==
  [name |-> name, message |-> message, status |-> -1, statusText |-> "", headers |-> << >>, data |-> NoData,
   cause |-> NoCause]

WorkflowAPIError(status, statusText, data, cause) ==
  [name |-> "WorkflowAPIError", message |-> << >>, status |-> status, statusText |-> statusText,
   headers |-> << >>, data |-> data, cause |-> cause]

\* new DOMException('The operation was aborted', 'AbortError'), also what fetch rejects with on abort
AbortErrorValue == ErrorValue("AbortError", <<"The operation was aborted">>)

abortedError == AbortErrorValue

NoError == ErrorValue("none", << >>)

\* the failures a fetch call throws by itself (no abort involved)
NetworkFailures ==
  { ErrorValue("Error", <<"read", "ECONNRESET">>),
    ErrorValue("Error", <<"getaddrinfo", "ENOTFOUND", "api.example.com">>),
    ErrorValue("Error", <<"getaddrinfo", "EAI_AGAIN", "api.example.com">>),
    ErrorValue("Error", <<"connect", "ETIMEDOUT">>),
    ErrorValue("Error", <<"socket hang up">>),
    ErrorValue("TypeError", <<"fetch failed">>),
    ErrorValue("NotAnError", <<"ECONNRESET">>) }

\* String.prototype.toUpperCase on the text pieces of the model
toUpperCase(piece) ==
  CASE piece = "socket hang up" -> "SOCKET HANG UP"
    [] piece = "read" -> "READ"
    [] piece = "connect" -> "CONNECT"
    [] piece = "getaddrinfo" -> "GETADDRINFO"
    [] piece = "api.example.com" -> "API.EXAMPLE.COM"
    [] piece = "fetch failed" -> "FETCH FAILED"
    [] piece = "Request aborted after" -> "REQUEST ABORTED AFTER"
    [] piece = "/api/v1/status?taskId=task-1" -> "/API/V1/STATUS?TASKID=TASK-1"
    [] piece = "/api/v1" -> "/API/V1"
    [] piece = "post" -> "POST"
    [] piece = "The operation was aborted" -> "THE OPERATION WAS ABORTED"
    [] OTHER -> piece

retryableMessages == {"ECONNRESET", "ENOTFOUND", "EAI_AGAIN", "ETIMEDOUT", "socket hang up"}

\* error instanceof Error
instanceofError(error) == error.name \in {"Error", "TypeError", "WorkflowAPIError"}

isRetryableNetworkError(error) ==
  IF error.name = "AbortError" THEN TRUE
  ELSE IF instanceofError(error)
    THEN \E msg \in retryableMessages :
           \E i \in 1..Len(error.message) : toUpperCase(error.message[i]) = msg
    ELSE FALSE

(* ------------------------------ headers and bodies --------------------- *)

\* String.prototype.toLowerCase on the header names of the model
toLowerCase(name) ==
  CASE name \in {"Accept", "ACCEPT"} -> "accept"
    [] name = "User-Agent" -> "user-agent"
    [] name \in {"X-API-Key", "X-Api-Key"} -> "x-api-key"
    [] name \in {"Content-Type", "CONTENT-TYPE"} -> "content-type"
    [] name = "X-Trace" -> "x-trace"
    [] name = "X-Request-Id" -> "x-request-id"
    [] OTHER -> name

\* a plain object of headers is the sequence of its <<key, value>> entries in insertion
\* order, keys compared as they are written
NoHeaders == << >>

\* headers[key] = value on a plain object
ObjectSet(headers, key, value) ==
  IF \E i \in 1..Len(headers) : headers[i][1] = key
    THEN [i \in 1..Len(headers) |-> IF headers[i][1] = key THEN <<key, value>> ELSE headers[i]]
    ELSE Append(headers, <<key, value>>)

\* Object.entries(overrides).forEach(([key, value]) => { headers[key] = value })
RECURSIVE ObjectAssign(_, _)
ObjectAssign(headers, overrides) ==
  IF overrides = << >> THEN headers
  ELSE ObjectAssign(ObjectSet(headers, Head(overrides)[1], Head(overrides)[2]), Tail(overrides))

\* a Headers object is the sequence of its <<lower-case name, value>> entries
\* Headers.prototype.append
HeadersAppend(headers, name, value) == Append(headers, <<toLowerCase(name), value>>)

\* Headers.prototype.set: the entries of that name are replaced by one
HeadersSet(headers, name, value) ==
  Append(SelectSeq(headers, LAMBDA e : e[1] # toLowerCase(name)), <<toLowerCase(name), value>>)

\* Headers.prototype.get: the values of that name in order (joined by ', '), << >> for null
HeadersGet(headers, name) ==
  LET entries == SelectSeq(headers, LAMBDA e : e[1] = toLowerCase(name))
  IN [i \in 1..Len(entries) |-> entries[i][2]]

\* new Headers(record): every entry of the record is appended
RECURSIVE HeadersNew(_)
HeadersNew(record) ==
  IF record = << >> THEN << >>
  ELSE HeadersAppend(HeadersNew(SubSeq(record, 1, Len(record) - 1)),
                     record[Len(record)][1], record[Len(record)][2])

\* customHeaders.forEach(... headers.set(key, value))
RECURSIVE HeadersSetAll(_, _)
HeadersSetAll(headers, customHeaders) ==
  IF customHeaders = << >> THEN headers
  ELSE HeadersSetAll(HeadersSet(headers, Head(customHeaders)[1], Head(customHeaders)[2]), Tail(customHeaders))

\* normalizeHeaders of a Headers object: normalized[key] = value for each entry
normalizeHeaders(headers) == ObjectAssign(NoHeaders, headers)

\* the headers of the responses of the server, as a Headers object
ResponseHeaders == HeadersNew(<< <<"Content-Type", "application/json">>, <<"X-Request-Id", "req-1">> >>)

SDK_VERSION == "0.1.0"

\* buildUserAgent without a suffix
buildUserAgent == <<"syncteams-sdk/", SDK_VERSION>>

buildDefaultHeaders(apiKey, overrides) ==
  ObjectAssign(<< <<"Accept", "application/json">>, <<"User-Agent", buildUserAgent>>, <<"x-api-key", apiKey>> >>,
               overrides)

\* a body value: its typeof, its class, and its content as a record
BodyValue(type, class, value) == [type |-> type, class |-> class, value |-> value]

\* body left out
NoBodyInit == BodyValue("undefined", "undefined", [f \in {} |-> 0])

\* the classes of body that are binary or form data
BinaryClasses == {"Blob", "ArrayBuffer", "Uint8Array"}

FormClasses == {"FormData", "URLSearchParams"}

\* JSON.stringify of a plain object: the text of its fields whose value is defined
JSONstringify(value) ==
  BodyValue("string", "String",
            [json |-> [k \in {f \in DOMAIN value : value[f].type # "undefined"} |-> value[k]]])

\* JSON.parse of a text JSON.stringify produced
JSONparse(text) == text.value.json

\* contentType.includes('application/json')
includesJson(contentType) == contentType \in {"application/json", "application/json; charset=utf-8"}

(* ------------------------------ inputs --------------------------------- *)

\* HTTP statuses the server answers with
RespStatuses == {200, 400, 500}

\* statuses of the task the server reports in a 2xx body
PollStatuses == {"PENDING", "RUNNING", "WAITING", "COMPLETED"}

\* time a fetch call takes to deliver its response
Latencies == {200}

\* time the onWaiting handler takes
HandlerDurations == {5000}

\* retry objects a caller passes (optional fields), as WorkflowClientRetryConfig
RetryConfigs ==
  { [maxAttempts |-> n] : n \in 0..MaxAttempts }
  \cup { [maxAttempts |-> n, initialDelayMs |-> 1000, backoffFactor |-> 2, maxDelayMs |-> 1500]
           : n \in 2..MaxAttempts }
  \cup { [maxAttempts |-> MaxAttempts, initialDelayMs |-> 100, backoffFactor |-> 3],
         [retryOnStatuses |-> {400}],
         [maxAttempts |-> MaxAttempts, retryOnStatuses |-> {200, 500}],
         [retryOnStatuses |-> {}] }

\* the retry option of the client constructor
ClientRetryChoices ==
  { << >>, <<[maxAttempts |-> 1]>>, <<[maxAttempts |-> 2, initialDelayMs |-> 100]>>,
    <<[maxAttempts |-> 2, initialDelayMs |-> 100, retryOnStatuses |-> {400, 500}]>> }

\* the retry option of the client constructor in the runs of waitForCompletion
PollingRetryChoices == { <<[maxAttempts |-> 1]>>, <<[maxAttempts |-> 2, initialDelayMs |-> 100]>> }

\* RequestOptions of a direct request() call: retry, timeoutMs (optional) and signal (present or not)
RequestInits ==
  { [retry |-> r, timeoutMs |-> t, signal |-> s, method |-> << >>, headers |-> NoHeaders, body |-> NoBodyInit] :
      r \in {<< >>} \cup { <<c>> : c \in RetryConfigs }, t \in {<< >>, <<100>>}, s \in BOOLEAN }

NoInit ==
  [retry |-> << >>, timeoutMs |-> << >>, signal |-> FALSE, method |-> << >>, headers |-> NoHeaders,
   body |-> NoBodyInit]

\* the defaultHeaders option of the client constructor in the runs that look at what is sent
SendDefaultHeaders ==
  { NoHeaders, << <<"X-Trace", "c1">> >>, << <<"Accept", "text/plain">> >>, << <<"accept", "text/plain">> >> }

\* the headers option of a request() call
SendCallHeaders ==
  { NoHeaders, << <<"ACCEPT", "text/csv">> >>, << <<"x-trace", "p1">> >>,
    << <<"Content-Type", "text/plain">> >>, << <<"content-type", "application/json; charset=utf-8">> >> }

\* the body option of a request() call: left out, a plain object, a string, binary and form bodies
SendBodies ==
  { NoBodyInit,
    BodyValue("object", "Object", [note |-> [type |-> "string", text |-> "hello"]]),
    BodyValue("string", "String", [text |-> "hello"]) }
  \cup { BodyValue("object", c, [content |-> [type |-> "string", text |-> c]]) : c \in BinaryClasses \cup FormClasses }

\* the request() calls of those runs
SendInits ==
  { [NoInit EXCEPT !.method = <<"post">>, !.headers = h, !.body = b] : h \in SendCallHeaders, b \in SendBodies }

\* WaitForCompletionOptions / ExecuteAndWaitOptions: optional fields, signal and onWaiting present or not
WaitOptionFields ==
  { p @@ m @@ t @@ e :
      p \in {EmptyObject, [pollIntervalMs |-> 500]},
      m \in {EmptyObject, [maxWaitTimeMs |-> 0], [maxWaitTimeMs |-> 2000]},
      t \in {EmptyObject, [terminalStatuses |-> {"RUNNING", "WAITING"}]},
      e \in {EmptyObject, [exitOnWaiting |-> TRUE]} }

\* the options of the executeAndWait calls of the model
ExecOptionFields ==
  { m @@ e :
      m \in {EmptyObject, [maxWaitTimeMs |-> 2000]},
      e \in {EmptyObject, [exitOnWaiting |-> TRUE], [exitOnWaiting |-> FALSE]} }

NoOptions == [fields |-> EmptyObject, signal |-> FALSE, onWaiting |-> FALSE]

TaskId == "task-1"

\* a JavaScript value passed where a string is expected: its typeof and, for a string, its text
StringValue(text) == [type |-> "string", text |-> text]

\* an argument left out (undefined)
MissingValue == [type |-> "undefined", text |-> ""]

\* a number passed where a string is expected
NumberValue == [type |-> "number", text |-> "42"]

\* String.prototype.trim on the texts of the model
trim(text) == IF text = "   " THEN "" ELSE text

\* values that are not a non-empty string
InvalidStrings == {StringValue(""), StringValue("   "), MissingValue, NumberValue}

\* the message argument of continueTask
MessageInputs == {MissingValue, StringValue(""), StringValue("   "), StringValue("Missing documentation")}

ApprovalDecision == {"APPROVE", "REJECT"}

\* the arguments of a call that passes validation
ValidArgs ==
  [taskId |-> StringValue(TaskId), workflowId |-> StringValue("workflow-1"), uniqueId |-> MissingValue,
   input |-> [type |-> "object", circular |-> FALSE], decision |-> "APPROVE", message |-> MissingValue]

\* the arguments of the executeWorkflow calls of the model
ExecuteInputs ==
  { [ValidArgs EXCEPT !.workflowId = w, !.input = [type |-> "object", circular |-> c]] :
      w \in {StringValue("workflow-1")} \cup InvalidStrings, c \in BOOLEAN }

\* the arguments of the getTaskStatus and waitForCompletion calls of the model
TaskIdInputs == { [ValidArgs EXCEPT !.taskId = id] : id \in {StringValue(TaskId)} \cup InvalidStrings }

\* the arguments of the continueTask calls of the model
ContinueInputs ==
  { [ValidArgs EXCEPT !.taskId = id, !.decision = d, !.message = m] :
      id \in {StringValue(TaskId), StringValue("")}, d \in ApprovalDecision, m \in MessageInputs }

\* the retry option of the client constructor in the runs of the single-request methods
MethodRetryChoices == { <<[maxAttempts |-> 2, initialDelayMs |-> 100]>> }

\* the executeWorkflow calls of the runs that look at what is sent
SendExecuteInputs == { [ValidArgs EXCEPT !.uniqueId = u] : u \in {MissingValue, StringValue("abc123")} }

\* a 2xx body that response.json() rejects
Unparseable == [taskId |-> "", status |-> "<html>"]

NoBody == [taskId |-> "", status |-> undefined]

(* ------------------------------ state ---------------------------------- *)

VARIABLES
  inv,               \* a second invocation in progress on the same client: its locals while it is suspended
  client,            \* HttpClient fields fixed by the constructor: defaultRetry, defaultTimeout
  call,              \* the operation the caller invokes and its arguments
  signalAborted,     \* signal.aborted of the caller's AbortSignal
  listeners,         \* 'abort' listeners on the caller's signal, by the function that added them
  abortedWhile,      \* where request() and waitForCompletion stood when the caller aborted its signal
  timers,            \* pending timers: "timeout" (performRequest), "backoff", "sleep"
  now,               \* Date.now()
  hpc,               \* position of request(): idle, fetching, backoff, returned, threw
  req,               \* normalizeInit's result for the request in progress
  attempt,           \* loop variable of request()
  controllerAborted, \* controller.signal.aborted of the attempt in progress
  fetchCalls,        \* number of fetchImpl calls made so far
  sleeps,            \* delays of the backoff sleeps of the request in progress
  responses,         \* per attempt of the request in progress: response status, 0 when the call threw
  thrown,            \* the error caught by the catch of request() in the latest attempt
  reqResult,         \* what request() returned (body) or threw (error)
  wpc,               \* position of waitForCompletion: idle, loop, polling, sleeping, returned, threw
  wopts,             \* the destructured options of the waitForCompletion in progress
  startedAt,         \* startedAt of waitForCompletion
  lastStatus,        \* lastStatus of waitForCompletion
  polled,            \* statuses the polls of this waitForCompletion returned
  updates,           \* statuses passed to onUpdate by this waitForCompletion
  statusCalls,       \* number of getTaskStatus calls made so far
  waitResult,        \* what waitForCompletion returned or threw, and when
  epc,               \* position of executeAndWait: idle, executing, tail, round, handler, returned, threw
  rounds,            \* waitForCompletion calls made by executeAndWait: the exitOnWaiting each ran with
  handlerCalls,      \* records passed to onWaiting
  continuePolling,   \* continuePolling of executeAndWait
  execResult,        \* what executeAndWait returned or threw
  requests,          \* the request() calls made so far: method and path of each
  mpc,               \* position of a directly called single-request method: idle, awaiting, returned, threw
  methodResult       \* what that method returned or threw

tvars == <<hpc, req, attempt, controllerAborted, fetchCalls, sleeps, responses, thrown, reqResult>>

wvars == <<wpc, wopts, startedAt, lastStatus, polled, updates, statusCalls, waitResult>>

evars == <<epc, rounds, handlerCalls, continuePolling, execResult>>

mvars == <<mpc, methodResult>>

vars == <<inv, client, call, signalAborted, listeners, abortedWhile, timers, now, tvars, wvars, evars, requests, mvars>>

NoListeners == [performRequest |-> 0, sleep |-> 0]

NotAborted == [hpc |-> "none", wpc |-> "none"]

NoResult == [body |-> NoBody, error |-> NoError, at |-> 0]

NoWaitOptions ==
  [pollIntervalMs |-> 0, maxWaitTimeMs |-> 0, terminalSet |-> {}, exitOnWaiting |-> FALSE, signal |-> FALSE]

NoReq ==
  [retry |-> BuiltinRetry, timeoutMs |-> 0, signal |-> FALSE, method |-> "", url |-> "",
   headers |-> NoHeaders, body |-> NoBodyInit]

\* WorkflowClientOptions: apiKey, retry (optional) and defaultHeaders (optional)
ClientOptions(retry, defaultHeaders) ==
  [apiKey |-> "sts_test_key", baseUrl |-> "https://api.example.com", retry |-> retry,
   defaultHeaders |-> defaultHeaders]

\* the HttpClient constructor: the fields it fixes
HttpClient(options) ==
  [baseUrl |-> options.baseUrl, apiKey |-> options.apiKey,
   defaultHeaders |-> buildDefaultHeaders(options.apiKey, options.defaultHeaders),
   defaultTimeout |-> DEFAULT_REQUEST_TIMEOUT_MS,
   defaultRetry |-> normalizeRetryConfig(options.retry, << >>)]

\* the WorkflowClient constructor: the options it keeps and its HttpClient
WorkflowClient(options) == [options |-> options] @@ HttpClient(options)

\* one invocation at a time: no second invocation
NoPair == [current |-> 0]

\* no operation has been started on the client: nothing pending, nothing recorded
NothingStarted ==
  /\ listeners = NoListeners
  /\ timers = {}
  /\ now = 0
  /\ hpc = "idle" /\ controllerAborted = FALSE
  /\ fetchCalls = 0 /\ responses = << >> /\ thrown = NoError /\ reqResult = NoResult
  /\ wpc = "idle" /\ wopts = NoWaitOptions /\ startedAt = 0 /\ lastStatus = undefined
  /\ polled = << >> /\ updates = << >> /\ statusCalls = 0 /\ waitResult = NoResult
  /\ epc = "idle" /\ rounds = << >> /\ handlerCalls = << >> /\ continuePolling = TRUE
  /\ execResult = NoResult
  /\ requests = << >>
  /\ mpc = "idle" /\ methodResult = NoResult

Init ==
  /\ \/ /\ \E cr \in ClientRetryChoices : client = WorkflowClient(ClientOptions(cr, NoHeaders))
        /\ \E i \in RequestInits :
             call = [op |-> "request", init |-> i, options |-> NoOptions, args |-> ValidArgs]
     \/ /\ \E cr \in PollingRetryChoices : client = WorkflowClient(ClientOptions(cr, NoHeaders))
        /\ \E f \in WaitOptionFields, s \in BOOLEAN, a \in TaskIdInputs :
             /\ a # ValidArgs => (f = EmptyObject /\ ~s)
             /\ call = [op |-> "waitForCompletion", init |-> NoInit,
                        options |-> [fields |-> f, signal |-> s, onWaiting |-> FALSE], args |-> a]
     \/ /\ client = WorkflowClient(ClientOptions(<<[maxAttempts |-> 1]>>, NoHeaders))
        /\ \E f \in ExecOptionFields, s \in BOOLEAN, h \in BOOLEAN, a \in ExecuteInputs :
             /\ a # ValidArgs => (f = EmptyObject /\ ~s)
             /\ call = [op |-> "executeAndWait", init |-> NoInit,
                        options |-> [fields |-> f, signal |-> s, onWaiting |-> h], args |-> a]
     \/ /\ \E cr \in MethodRetryChoices : client = WorkflowClient(ClientOptions(cr, NoHeaders))
        /\ \/ \E a \in ExecuteInputs :
                call = [op |-> "executeWorkflow", init |-> NoInit, options |-> NoOptions, args |-> a]
           \/ \E a \in TaskIdInputs :
                call = [op |-> "getTaskStatus", init |-> NoInit, options |-> NoOptions, args |-> a]
           \/ \E a \in ContinueInputs :
                call = [op |-> "continueTask", init |-> NoInit, options |-> NoOptions, args |-> a]
  /\ signalAborted \in (IF call.init.signal \/ call.options.signal THEN BOOLEAN ELSE {FALSE})
  /\ abortedWhile = IF signalAborted THEN [hpc |-> "before", wpc |-> "before"] ELSE NotAborted
  /\ req = NoReq /\ attempt = 0 /\ sleeps = << >>
  /\ inv = NoPair
  /\ NothingStarted

(* ------------------------------ transport ------------------------------ *)

Returned(body, t) == [body |-> body, error |-> NoError, at |-> t]

Threw(error, t) == [body |-> NoBody, error |-> error, at |-> t]

\* normalizeInit that takes the client's defaults whatever the call passes
normalizeInit_defaultsOnly(init, method, url) ==
  [retry |-> client.defaultRetry, timeoutMs |-> client.defaultTimeout,
   signal |-> init.signal, method |-> toUpperCase(method), url |-> url, headers |-> init.headers,
   body |-> init.body]

\* HttpClient.normalizeInit: the retry policy and timeout in force for one request
normalizeInit(init, method, url) ==
  [retry |-> normalizeRetryConfig(init.retry, <<client.defaultRetry>>),
   timeoutMs |-> IF init.timeoutMs = << >> THEN client.defaultTimeout ELSE init.timeoutMs[1],
   signal |-> init.signal, method |-> toUpperCase(method), url |-> url, headers |-> init.headers,
   body |-> init.body]

\* HttpClient.mergeHeaders: the headers sent with a request
mergeHeaders(customHeaders, body) ==
  LET headers == HeadersSetAll(HeadersNew(client.defaultHeaders), customHeaders)
  IN IF /\ body.type = "object"
        /\ body.class \notin {"ArrayBuffer", "Blob", "FormData"}
        /\ HeadersGet(headers, "content-type") = << >>
       THEN HeadersSet(headers, "Content-Type", "application/json")
       ELSE headers

\* serializeBody: the body sent with a request
serializeBody(body, headers) ==
  IF body.type = "undefined" THEN body
  ELSE IF body.class = "URLSearchParams" THEN body
  ELSE IF body.class \in {"Blob", "FormData", "ArrayBuffer", "Uint8Array"} THEN body
  ELSE IF /\ body.type = "object"
          /\ \E i \in 1..Len(HeadersGet(headers, "Content-Type")) :
                includesJson(HeadersGet(headers, "Content-Type")[i])
    THEN JSONstringify(body.value)
  ELSE IF body.type = "string" THEN body
  ELSE JSONstringify(body.value)

\* clearTimeout that leaves the timer pending
clearTimeout_forgotten(timer) == timers

\* clearTimeout(timer): the pending timers without timer
clearTimeout(timer) == timers \ {timer}

\* resolved.retry.maxAttempts read one too high
maxAttempts_plusOne(resolved) == resolved.retry.maxAttempts + 1

\* const maxAttempts = resolved.retry.maxAttempts
maxAttempts(resolved) == resolved.retry.maxAttempts

\* HttpClient.performRequest up to its await of fetchImpl
performRequest(r) ==
  /\ hpc' = "fetching"
  /\ controllerAborted' = (r.signal /\ signalAborted)
  /\ listeners' = IF r.signal /\ ~signalAborted
                    THEN [listeners EXCEPT !.performRequest = @ + 1] ELSE listeners
  /\ fetchCalls' = fetchCalls + 1
  /\ timers' = (timers \ {"backoff"}) \cup {"timeout"}
  /\ reqResult' = NoResult

\* the head of the for loop of request(): attempt a starts, or the loop is left
attemptLoop(a, r, t) ==
  /\ attempt' = a
  /\ IF a <= maxAttempts(r)
       THEN performRequest(r)
       ELSE /\ hpc' = "threw"
            /\ reqResult' = Threw(WorkflowAPIError(0, "RETRY_EXHAUSTED", NoData, NoCause), t)
            /\ timers' = timers \ {"backoff"}
            /\ UNCHANGED <<controllerAborted, listeners, fetchCalls>>

\* HttpClient.request up to its first await
request(init, method, url) ==
  LET resolved == normalizeInit(init, method, url)
      headers == mergeHeaders(init.headers, resolved.body)
  IN /\ req' = [resolved EXCEPT !.headers = headers, !.body = serializeBody(resolved.body, headers)]
     /\ requests' = Append(requests, [method |-> resolved.method, url |-> url])
     /\ sleeps' = << >>
     /\ responses' = << >>
     /\ thrown' = NoError
     /\ attemptLoop(1, resolved, now)

\* the retry guard that also lets the last iteration continue
attemptsRemain_inclusive(a, max) == a <= max

\* attempt < maxAttempts
attemptsRemain(a, max) == a < max

\* an attempt that did not return: sleep the backoff delay and continue, or throw error
attemptFailed(error, retry, t) ==
  /\ IF retry
       THEN /\ hpc' = "backoff"
            /\ sleeps' = Append(sleeps, delayWithBackoff(attempt, req.retry))
            /\ timers' = clearTimeout("timeout") \cup {"backoff"}
            /\ reqResult' = reqResult
       ELSE /\ hpc' = "threw"
            /\ sleeps' = sleeps
            /\ timers' = clearTimeout("timeout")
            /\ reqResult' = Threw(error, t)
  /\ UNCHANGED <<req, attempt, controllerAborted, fetchCalls, listeners>>

toWorkflowError(status) ==
  [WorkflowAPIError(status, "HTTP", NoData, NoCause) EXCEPT !.headers = normalizeHeaders(ResponseHeaders)]

\* the catch branch of request()
requestCatch(error, t) ==
  /\ thrown' = error
  /\ IF error.name = "WorkflowAPIError"
    THEN attemptFailed(error, FALSE, t)
    ELSE IF attemptsRemain(attempt, maxAttempts(req)) /\ isRetryableNetworkError(error)
              /\ req.retry.maxAttempts > 1
      THEN attemptFailed(error, TRUE, t)
      ELSE attemptFailed(WorkflowAPIError(0, "NETWORK_ERROR", NoData, <<error>>), FALSE, t)

\* response.ok taken as true for every status below 500
ok_below500(status) == status < 500

\* response.ok
ok(status) == status \in 200..299

\* the rejection of response.json() thrown as it is
parseFailure_unwrapped(status) == ErrorValue("SyntaxError", <<"Unexpected token">>)

\* the error parseSuccessResponse throws when response.json() rejects
parseFailure(status) ==
  [WorkflowAPIError(status, "HTTP", NoData, <<ErrorValue("SyntaxError", <<"Unexpected token">>)>>)
     EXCEPT !.headers = normalizeHeaders(ResponseHeaders)]

\* the try branch of request() once performRequest returned a response
requestTry(status, body, t) ==
  IF ok(status)
    THEN IF body # Unparseable
      THEN /\ hpc' = "returned"
           /\ reqResult' = Returned(body, t)
           /\ timers' = clearTimeout("timeout")
           /\ UNCHANGED <<req, attempt, controllerAborted, fetchCalls, listeners, sleeps, thrown>>
      ELSE requestCatch(parseFailure(status), t)
    ELSE IF attemptsRemain(attempt, maxAttempts(req)) /\ shouldRetry(status, req.retry)
      THEN attemptFailed(toWorkflowError(status), TRUE, t) /\ thrown' = NoError
      ELSE requestCatch(toWorkflowError(status), t)

\* the caller invokes request() directly
Request ==
  /\ call.op = "request" /\ hpc = "idle" /\ reqResult = NoResult
  /\ request(call.init, IF call.init.method = << >> THEN "GET" ELSE call.init.method[1],
             "/api/v1/status?taskId=task-1")
  /\ UNCHANGED <<mvars, inv, client, call, signalAborted, abortedWhile, now, wvars, evars>>

\* fetchImpl resolves with a response
FetchRespond ==
  /\ hpc = "fetching" /\ ~controllerAborted
  /\ \E status \in RespStatuses, l \in Latencies,
        body \in {Unparseable} \cup
                 { [taskId |-> TaskId, status |-> b] :
                     b \in (IF req.method = "POST" THEN {"PENDING"} ELSE PollStatuses) } :
       /\ l = 0 \/ l < req.timeoutMs
       /\ ~ok(status) => body = [taskId |-> TaskId, status |-> "PENDING"]
       /\ now' = now + l
       /\ responses' = Append(responses, status)
       /\ requestTry(status, body, now')
  /\ UNCHANGED <<requests, mvars, inv, client, call, signalAborted, abortedWhile, wvars, evars>>

\* fetchImpl rejects with a failure of its own
FetchThrows ==
  /\ hpc = "fetching" /\ ~controllerAborted
  /\ \E error \in NetworkFailures :
       /\ responses' = Append(responses, 0)
       /\ requestCatch(error, now)
  /\ UNCHANGED <<requests, mvars, inv, client, call, signalAborted, abortedWhile, now, wvars, evars>>

\* the timer of performRequest fires: controller.abort()
AttemptTimeout ==
  /\ hpc = "fetching" /\ ~controllerAborted /\ "timeout" \in timers
  /\ controllerAborted' = TRUE
  /\ now' = now + req.timeoutMs
  /\ timers' = timers \ {"timeout"}
  /\ UNCHANGED <<requests, mvars, inv, client, call, signalAborted, listeners, abortedWhile, hpc, req, attempt, fetchCalls,
                 sleeps, responses, thrown, reqResult, wvars, evars>>

\* fetchImpl rejects because controller.signal is aborted: the catch of performRequest
FetchAborted ==
  /\ hpc = "fetching" /\ controllerAborted
  /\ responses' = Append(responses, 0)
  /\ IF req.signal /\ signalAborted
       THEN requestCatch(AbortErrorValue, now)
       ELSE requestCatch(ErrorValue("Error", <<"Request aborted after", req.method, req.url>>), now)
  /\ UNCHANGED <<requests, mvars, inv, client, call, signalAborted, abortedWhile, now, wvars, evars>>

\* the timer of delayWithBackoff fires: next iteration of the attempt loop
BackoffDone ==
  /\ hpc = "backoff"
  /\ now' = now + sleeps[Len(sleeps)]
  /\ attemptLoop(attempt + 1, req, now')
  /\ UNCHANGED <<requests, mvars, inv, client, call, signalAborted, abortedWhile, req, sleeps, responses, thrown, wvars, evars>>

\* the awaiting caller took the outcome of request(): the frame of that call is gone
requestConsumed ==
  /\ hpc' = "idle"
  /\ req' = NoReq
  /\ attempt' = 0
  /\ controllerAborted' = FALSE
  /\ sleeps' = << >>
  /\ responses' = << >>
  /\ thrown' = NoError
  /\ reqResult' = NoResult

(* ------------------------------ validation ----------------------------- *)

\* assertString with a check of the type only
assertString_typeOnly(value) == value.type = "string"

\* assertString(value, field) does not throw
assertString(value) == value.type = "string" /\ trim(value.text) # ""

\* the error assertString throws for field
mustBeString(field) == ErrorValue("Error", <<field, "must be a non-empty string">>)

\* ensureSerializable(value, field) does not throw: JSON.stringify accepts value
ensureSerializable(value) == ~value.circular

\* continueTask's message check taken as a check for an absent message only
messageMissing_absentOnly(decision, message) == decision = "REJECT" /\ message.type = "undefined"

\* decision === ApprovalDecision.REJECT && !message
messageMissing(decision, message) ==
  decision = "REJECT" /\ (message.type = "undefined" \/ message.text = "")

\* the error executeWorkflow throws before its request, NoError if none
executeWorkflow(input) ==
  IF ~assertString(input.workflowId) THEN mustBeString("workflowId")
  ELSE IF ~ensureSerializable(input.input)
    THEN ErrorValue("Error", <<"input", "must be JSON serializable">>)
    ELSE NoError

\* the error getTaskStatus throws before its request, NoError if none
getTaskStatus(taskId) == IF ~assertString(taskId) THEN mustBeString("taskId") ELSE NoError

\* the error continueTask throws before its request, NoError if none
continueTask(params) ==
  IF ~assertString(params.taskId) THEN mustBeString("taskId")
  ELSE IF messageMissing(params.decision, params.message)
    THEN ErrorValue("Error", <<"message is required when decision is REJECT">>)
    ELSE NoError

(* ------------------------------ single-request methods ----------------- *)

\* a method that validates its arguments and returns this.http.request(...)
method(error, verb, path, payload) ==
  IF error # NoError
    THEN /\ mpc' = "threw"
         /\ methodResult' = Threw(error, now)
         /\ UNCHANGED <<tvars, requests, listeners, timers>>
    ELSE /\ mpc' = "awaiting"
         /\ methodResult' = methodResult
         /\ request([NoInit EXCEPT !.body = payload], verb, path)

\* the payload of executeWorkflow
executePayload(input) ==
  BodyValue("object", "Object",
            [workflowId |-> input.workflowId, uniqueId |-> input.uniqueId, input |-> input.input])

\* the payload of continueTask
continuePayload(params) ==
  BodyValue("object", "Object",
            [taskId |-> params.taskId, type |-> StringValue(params.decision), message |-> params.message])

\* the caller invokes executeWorkflow
ExecuteWorkflow ==
  /\ call.op = "executeWorkflow" /\ mpc = "idle"
  /\ method(executeWorkflow(call.args), "POST", "/api/v1", executePayload(call.args))
  /\ UNCHANGED <<inv, client, call, signalAborted, abortedWhile, now, wvars, evars>>

\* the caller invokes getTaskStatus
GetTaskStatus ==
  /\ call.op = "getTaskStatus" /\ mpc = "idle"
  /\ method(getTaskStatus(call.args.taskId), "GET", "/api/v1/status?taskId=task-1", NoBodyInit)
  /\ UNCHANGED <<inv, client, call, signalAborted, abortedWhile, now, wvars, evars>>

\* the caller invokes continueTask
ContinueTask ==
  /\ call.op = "continueTask" /\ mpc = "idle"
  /\ method(continueTask(call.args), "POST", "/api/v1/continue", continuePayload(call.args))
  /\ UNCHANGED <<inv, client, call, signalAborted, abortedWhile, now, wvars, evars>>

\* the request of the method returned: the method returns its body
MethodReturned ==
  /\ mpc = "awaiting" /\ hpc = "returned"
  /\ mpc' = "returned"
  /\ methodResult' = Returned(reqResult.body, now)
  /\ requestConsumed
  /\ UNCHANGED <<inv, client, call, signalAborted, listeners, abortedWhile, timers, now, fetchCalls, requests,
                 wvars, evars>>

\* the request of the method threw: the method throws its error
MethodThrew ==
  /\ mpc = "awaiting" /\ hpc = "threw"
  /\ mpc' = "threw"
  /\ methodResult' = Threw(reqResult.error, now)
  /\ requestConsumed
  /\ UNCHANGED <<inv, client, call, signalAborted, listeners, abortedWhile, timers, now, fetchCalls, requests,
                 wvars, evars>>

(* ------------------------------ waitForCompletion ---------------------- *)

\* the destructuring of options at the head of waitForCompletion
destructure(fields, signal) ==
  [pollIntervalMs |-> Nullish(fields, "pollIntervalMs", DEFAULT_POLL_INTERVAL_MS),
   maxWaitTimeMs |-> Nullish(fields, "maxWaitTimeMs", DEFAULT_MAX_WAIT_TIME_MS),
   terminalSet |-> Nullish(fields, "terminalStatuses", TERMINAL_STATUSES),
   exitOnWaiting |-> Nullish(fields, "exitOnWaiting", FALSE),
   signal |-> signal]

\* waitForCompletion that keeps lastStatus from the call before
waitForCompletion_remembering(taskId, fields, signal, t) ==
  /\ lastStatus' = lastStatus
  /\ polled' = << >>
  /\ updates' = << >>
  /\ IF ~assertString(taskId)
       THEN /\ wpc' = "threw"
            /\ waitResult' = Threw(mustBeString("taskId"), t)
            /\ UNCHANGED <<wopts, startedAt>>
       ELSE /\ wopts' = destructure(fields, signal)
            /\ startedAt' = t
            /\ waitResult' = NoResult
            /\ wpc' = "loop"

\* waitForCompletion up to the head of its loop, called at time t
waitForCompletion(taskId, fields, signal, t) ==
  /\ lastStatus' = undefined
  /\ polled' = << >>
  /\ updates' = << >>
  /\ IF ~assertString(taskId)
       THEN /\ wpc' = "threw"
            /\ waitResult' = Threw(mustBeString("taskId"), t)
            /\ UNCHANGED <<wopts, startedAt>>
       ELSE /\ wopts' = destructure(fields, signal)
            /\ startedAt' = t
            /\ waitResult' = NoResult
            /\ wpc' = "loop"

\* the caller invokes waitForCompletion directly
WaitForCompletion ==
  /\ call.op = "waitForCompletion" /\ wpc = "idle" /\ waitResult = NoResult
  /\ waitForCompletion(call.args.taskId, call.options.fields, call.options.signal, now)
  /\ UNCHANGED <<requests, mvars, inv, client, call, signalAborted, listeners, abortedWhile, timers, now, tvars, statusCalls,
                 evars>>

\* the loop entered without looking at the signal
abortCheck_skipped(signal) == FALSE

\* signal?.aborted at the head of the loop
abortCheck(signal) == signal /\ signalAborted

\* head of the loop: the check of signal.aborted, then getTaskStatus up to its await
WaitLoop ==
  /\ wpc = "loop"
  /\ IF abortCheck(wopts.signal)
       THEN /\ wpc' = "threw"
            /\ waitResult' = Threw(abortedError, now)
            /\ UNCHANGED <<listeners, timers, tvars, statusCalls, requests>>
       ELSE /\ statusCalls < MaxPolls
            /\ statusCalls' = statusCalls + 1
            /\ request(NoInit, "GET", "/api/v1/status?taskId=task-1")
            /\ wpc' = "polling"
            /\ waitResult' = waitResult
  /\ UNCHANGED <<mvars, inv, client, call, signalAborted, abortedWhile, now, wopts, startedAt, lastStatus, polled,
                 updates, evars>>

\* the timeout error carrying the status remembered before this poll
POLL_TIMEOUT_stale(status) ==
  WorkflowAPIError(0, "POLL_TIMEOUT", [taskId |-> TaskId, lastStatus |-> lastStatus], NoCause)

POLL_TIMEOUT(status) ==
  WorkflowAPIError(0, "POLL_TIMEOUT", [taskId |-> TaskId, lastStatus |-> status], NoCause)

\* sleep that resolves at once, with no timer
sleep_skipped(signal) == wpc' = "loop" /\ UNCHANGED <<timers, listeners, waitResult>>

\* sleep that takes the branch without signal whatever it is given
sleep_uncancellable(signal) ==
  wpc' = "sleeping" /\ timers' = timers \cup {"sleep"} /\ listeners' = listeners /\ waitResult' = waitResult

\* sleep(ms, signal) up to the point where its promise is pending or rejected
sleep(signal) ==
  IF ~signal
    THEN wpc' = "sleeping" /\ timers' = timers \cup {"sleep"} /\ listeners' = listeners
           /\ waitResult' = waitResult
    ELSE IF signalAborted
      THEN wpc' = "threw" /\ waitResult' = Threw(abortedError, now) /\ UNCHANGED <<timers, listeners>>
      ELSE wpc' = "sleeping" /\ timers' = timers \cup {"sleep"}
             /\ listeners' = [listeners EXCEPT !.sleep = @ + 1] /\ waitResult' = waitResult

\* the stop check placed after the timeout check: a late stopping status does not stop
shouldStop_unlessLate(isTerminal, isWaiting, exitOnWaiting) ==
  (isTerminal \/ (isWaiting /\ exitOnWaiting)) /\ now - startedAt < wopts.maxWaitTimeMs

\* the stop check without the exitOnWaiting clause
shouldStop_terminalOnly(isTerminal, isWaiting, exitOnWaiting) == isTerminal

\* the stop check of the loop
shouldStop(isTerminal, isWaiting, exitOnWaiting) == isTerminal \/ (isWaiting /\ exitOnWaiting)

\* the callback fired on every poll
statusChanged_everyPoll(status, last) == TRUE

\* the callback fired for a status value not passed to it before
statusChanged_unseen(status, last) == \A i \in 1..Len(updates) : updates[i] # status

\* status.status !== lastStatus
statusChanged(status, last) == status # last

\* the timeout check with a maxWaitTimeMs of 0 taken as no deadline
timedOut_positiveOnly(elapsed, maxWaitTimeMs) == maxWaitTimeMs > 0 /\ elapsed >= maxWaitTimeMs

\* elapsed >= maxWaitTimeMs
timedOut(elapsed, maxWaitTimeMs) == elapsed >= maxWaitTimeMs

\* getTaskStatus returned: status callback, stop check, timeout check, sleep
WaitPollReturned ==
  /\ wpc = "polling" /\ hpc = "returned"
  /\ LET status == reqResult.body
         isTerminal == status.status \in wopts.terminalSet
         isWaiting == status.status = WAITING
         elapsed == now - startedAt
     IN /\ polled' = Append(polled, status.status)
        /\ IF statusChanged(status.status, lastStatus)
             THEN lastStatus' = status.status /\ updates' = Append(updates, status.status)
             ELSE UNCHANGED <<lastStatus, updates>>
        /\ IF shouldStop(isTerminal, isWaiting, wopts.exitOnWaiting)
             THEN wpc' = "returned" /\ waitResult' = Returned(status, now) /\ UNCHANGED <<timers, listeners>>
             ELSE IF timedOut(elapsed, wopts.maxWaitTimeMs)
               THEN wpc' = "threw" /\ waitResult' = Threw(POLL_TIMEOUT(status.status), now)
                      /\ UNCHANGED <<timers, listeners>>
               ELSE sleep(wopts.signal)
  /\ requestConsumed
  /\ UNCHANGED <<requests, mvars, inv, client, call, signalAborted, abortedWhile, now, fetchCalls, wopts, startedAt, statusCalls,
                 evars>>

\* a failed poll followed by another turn of the loop
WaitPollThrew_retried ==
  /\ wpc = "polling" /\ hpc = "threw"
  /\ wpc' = "loop"
  /\ requestConsumed
  /\ UNCHANGED <<requests, mvars, inv, client, call, signalAborted, listeners, abortedWhile, timers, now, fetchCalls,
                 wopts, startedAt, lastStatus, polled, updates, statusCalls, waitResult, evars>>

\* getTaskStatus threw: the error leaves waitForCompletion
WaitPollThrew ==
  /\ wpc = "polling" /\ hpc = "threw"
  /\ wpc' = "threw"
  /\ waitResult' = Threw(reqResult.error, now)
  /\ requestConsumed
  /\ UNCHANGED <<requests, mvars, inv, client, call, signalAborted, listeners, abortedWhile, timers, now, fetchCalls, wopts,
                 startedAt, lastStatus, polled, updates, statusCalls, evars>>

\* the timer of sleep fires: cleanup, resolve, back to the head of the loop
SleepDone ==
  /\ wpc = "sleeping"
  /\ now' = now + wopts.pollIntervalMs
  /\ timers' = timers \ {"sleep"}
  /\ listeners' = [listeners EXCEPT !.sleep = 0]
  /\ wpc' = "loop"
  /\ UNCHANGED <<requests, mvars, inv, client, call, signalAborted, abortedWhile, tvars, wopts, startedAt, lastStatus, polled, updates,
                 statusCalls, waitResult, evars>>

(* ------------------------------ executeAndWait ------------------------- *)

\* the options passed on as they are, exitOnWaiting not overridden
waitOptions_asGiven(forced) == call.options.fields

\* exitOnWaiting overridden on every call, with or without a handler
waitOptions_alwaysForced(forced) == [exitOnWaiting |-> TRUE] @@ call.options.fields

\* const { onWaiting, ...waitOptions } = options, with exitOnWaiting overridden when forced
waitOptions(forced) ==
  IF forced THEN [exitOnWaiting |-> TRUE] @@ call.options.fields ELSE call.options.fields

\* a waitForCompletion call of executeAndWait that keeps the start time of the first one
pollingRound_sinceFirst(forced, t) ==
  /\ waitForCompletion(StringValue(TaskId), waitOptions(forced), call.options.signal,
                       IF rounds = << >> THEN t ELSE startedAt)
  /\ rounds' = Append(rounds, destructure(waitOptions(forced), call.options.signal).exitOnWaiting)

\* one more waitForCompletion call of executeAndWait, at time t
pollingRound(forced, t) ==
  /\ waitForCompletion(StringValue(TaskId), waitOptions(forced), call.options.signal, t)
  /\ rounds' = Append(rounds, destructure(waitOptions(forced), call.options.signal).exitOnWaiting)

\* the caller invokes executeAndWait: executeWorkflow up to its await
ExecuteAndWait ==
  /\ call.op = "executeAndWait" /\ epc = "idle"
  /\ IF executeWorkflow(call.args) # NoError
       THEN /\ epc' = "threw"
            /\ execResult' = Threw(executeWorkflow(call.args), now)
            /\ UNCHANGED <<tvars, requests, listeners, timers>>
       ELSE /\ epc' = "executing"
            /\ execResult' = execResult
            /\ request([NoInit EXCEPT !.body = executePayload(call.args)], "POST", "/api/v1")
  /\ UNCHANGED <<mvars, inv, client, call, signalAborted, abortedWhile, now, wvars, rounds, handlerCalls,
                 continuePolling>>

\* executeWorkflow returned: the first waitForCompletion call
ExecWorkflowReturned ==
  /\ epc = "executing" /\ hpc = "returned"
  /\ requestConsumed
  /\ IF ~call.options.onWaiting
       THEN epc' = "tail" /\ pollingRound(FALSE, now)
       ELSE epc' = "round" /\ pollingRound(TRUE, now)
  /\ UNCHANGED <<requests, mvars, inv, client, call, signalAborted, listeners, abortedWhile, timers, now, fetchCalls,
                 statusCalls, handlerCalls, continuePolling, execResult>>

\* executeWorkflow threw: the error leaves executeAndWait
ExecWorkflowThrew ==
  /\ epc = "executing" /\ hpc = "threw"
  /\ requestConsumed
  /\ epc' = "threw"
  /\ execResult' = Threw(reqResult.error, now)
  /\ UNCHANGED <<requests, mvars, inv, client, call, signalAborted, listeners, abortedWhile, timers, now, fetchCalls, wvars,
                 rounds, handlerCalls, continuePolling>>

\* a waitForCompletion call of executeAndWait returned
ExecWaitReturned ==
  /\ epc \in {"tail", "round"} /\ wpc = "returned"
  /\ wpc' = "idle"
  /\ LET current == waitResult.body
     IN IF epc = "tail" \/ current.status # WAITING
          THEN epc' = "returned" /\ execResult' = Returned(current, now) /\ handlerCalls' = handlerCalls
          ELSE epc' = "handler" /\ handlerCalls' = Append(handlerCalls, current) /\ execResult' = execResult
  /\ UNCHANGED <<requests, mvars, inv, client, call, signalAborted, listeners, abortedWhile, timers, now, tvars, wopts,
                 startedAt, lastStatus, polled, updates, statusCalls, waitResult, rounds, continuePolling>>

\* a waitForCompletion call of executeAndWait threw: the error leaves executeAndWait
ExecWaitThrew ==
  /\ epc \in {"tail", "round"} /\ wpc = "threw"
  /\ wpc' = "idle"
  /\ epc' = "threw"
  /\ execResult' = Threw(waitResult.error, now)
  /\ UNCHANGED <<requests, mvars, inv, client, call, signalAborted, listeners, abortedWhile, timers, now, tvars, wopts,
                 startedAt, lastStatus, polled, updates, statusCalls, waitResult, rounds, handlerCalls,
                 continuePolling>>

\* the return after the handler's answer left out
declined_ignored(answer) == FALSE

\* if (!continuePolling) after the handler's answer
declined(answer) == ~answer

\* onWaiting resolved with continuePolling: return current, or the next turn of the while loop
HandlerResolves ==
  /\ epc = "handler"
  /\ \E answer \in BOOLEAN, d \in HandlerDurations :
       /\ now' = now + d
       /\ continuePolling' = answer
       /\ IF declined(continuePolling')
            THEN /\ epc' = "returned"
                 /\ execResult' = Returned(handlerCalls[Len(handlerCalls)], now')
                 /\ UNCHANGED <<wvars, rounds>>
            ELSE IF continuePolling'
              THEN /\ Len(rounds) < MaxRounds
                   /\ epc' = "round"
                   /\ pollingRound(TRUE, now')
                   /\ UNCHANGED <<statusCalls, execResult>>
              ELSE /\ epc' = "threw"
                   /\ execResult' = Threw(ErrorValue("Error", <<"Unexpected: executeAndWait exited without returning">>), now')
                   /\ UNCHANGED <<wvars, rounds>>
  /\ UNCHANGED <<requests, mvars, inv, client, call, signalAborted, listeners, abortedWhile, timers, tvars, handlerCalls>>

\* onWaiting rejected: the error leaves executeAndWait
HandlerRejects ==
  /\ epc = "handler"
  /\ epc' = "threw"
  /\ execResult' = Threw(ErrorValue("Error", <<"onWaiting failed">>), now)
  /\ UNCHANGED <<requests, mvars, inv, client, call, signalAborted, listeners, abortedWhile, timers, now, tvars, wvars, rounds,
                 handlerCalls, continuePolling>>

(* ------------------------------ cancellation --------------------------- *)

\* the operation the caller invoked has settled
Settled ==
  CASE call.op = "request" -> hpc \in {"returned", "threw"}
    [] call.op = "waitForCompletion" -> wpc \in {"returned", "threw"}
    [] call.op = "executeAndWait" -> epc \in {"returned", "threw"}
    [] OTHER -> mpc \in {"returned", "threw"}

\* the caller aborts its signal: the registered listeners run
AbortSignal ==
  /\ call.init.signal \/ call.options.signal
  /\ ~signalAborted /\ ~Settled
  /\ signalAborted' = TRUE
  /\ abortedWhile' = [hpc |-> hpc, wpc |-> wpc]
  /\ listeners' = NoListeners
  /\ controllerAborted' = IF hpc = "fetching" /\ listeners.performRequest > 0 THEN TRUE ELSE controllerAborted
  /\ IF wpc = "sleeping" /\ listeners.sleep > 0
       THEN /\ \E e \in {0, wopts.pollIntervalMs \div 2} : now' = now + e
            /\ wpc' = "threw"
            /\ waitResult' = Threw(abortedError, now')
            /\ timers' = clearTimeout("sleep")
       ELSE UNCHANGED <<now, wpc, waitResult, timers>>
  /\ UNCHANGED <<requests, mvars, inv, client, call, hpc, req, attempt, fetchCalls, sleeps, responses, thrown, reqResult, wopts,
                 startedAt, lastStatus, polled, updates, statusCalls, evars>>

(* ------------------------------ specification -------------------------- *)

Next ==
  \/ Request
  \/ FetchRespond
  \/ FetchThrows
  \/ AttemptTimeout
  \/ FetchAborted
  \/ BackoffDone
  \/ WaitForCompletion
  \/ WaitLoop
  \/ WaitPollReturned
  \/ WaitPollThrew
  \/ SleepDone
  \/ ExecuteAndWait
  \/ ExecWorkflowReturned
  \/ ExecWorkflowThrew
  \/ ExecWaitReturned
  \/ ExecWaitThrew
  \/ HandlerResolves
  \/ HandlerRejects
  \/ AbortSignal
  \/ ExecuteWorkflow
  \/ GetTaskStatus
  \/ ContinueTask
  \/ MethodReturned
  \/ MethodThrew

Spec == Init /\ [][Next]_vars

(* ------------------------------ two invocations ----------------------- *)

\* the calls of the runs with two invocations on one client: request() with a retry and a
\* timeout of its own, waitForCompletion with a signal, waitForCompletion with a deadline,
\* the single-request methods, executeAndWait without a handler
PairCalls ==
  << [op |-> "request",
     init |-> [NoInit EXCEPT !.retry = <<[maxAttempts |-> 2, initialDelayMs |-> 100]>>, !.timeoutMs = <<5000>>],
     options |-> NoOptions, args |-> ValidArgs],
    [op |-> "waitForCompletion", init |-> NoInit,
     options |-> [fields |-> [exitOnWaiting |-> TRUE], signal |-> TRUE, onWaiting |-> FALSE], args |-> ValidArgs],
    [op |-> "waitForCompletion", init |-> NoInit,
     options |-> [fields |-> [maxWaitTimeMs |-> 2000], signal |-> FALSE, onWaiting |-> FALSE],
     args |-> ValidArgs],
    [op |-> "getTaskStatus", init |-> NoInit, options |-> NoOptions, args |-> ValidArgs],
    [op |-> "executeWorkflow", init |-> NoInit, options |-> NoOptions, args |-> ValidArgs],
    [op |-> "continueTask", init |-> NoInit, options |-> NoOptions, args |-> ValidArgs],
    [op |-> "executeAndWait", init |-> NoInit,
     options |-> [fields |-> EmptyObject, signal |-> FALSE, onWaiting |-> FALSE], args |-> ValidArgs] >>

\* the two calls made on one client: every operation is one of some pair, request() with its
\* own retry and timeout meets a poll and a method, the two waitForCompletion calls meet
Pairs == { <<1, 2>>, <<2, 3>>, <<1, 6>>, <<4, 5>>, <<1, 7>> }

\* the locals of the invocation that is running, and what is recorded about it
Frame ==
  [call |-> call, signalAborted |-> signalAborted, listeners |-> listeners, abortedWhile |-> abortedWhile,
   timers |-> timers, hpc |-> hpc, req |-> req, attempt |-> attempt, controllerAborted |-> controllerAborted,
   fetchCalls |-> fetchCalls, sleeps |-> sleeps, responses |-> responses, thrown |-> thrown,
   reqResult |-> reqResult, wpc |-> wpc, wopts |-> wopts, startedAt |-> startedAt, lastStatus |-> lastStatus,
   polled |-> polled, updates |-> updates, statusCalls |-> statusCalls, waitResult |-> waitResult,
   epc |-> epc, rounds |-> rounds, handlerCalls |-> handlerCalls, continuePolling |-> continuePolling,
   execResult |-> execResult, requests |-> requests, mpc |-> mpc, methodResult |-> methodResult]

\* the locals of an invocation of c that has not started
FreshFrame(c) ==
  [call |-> c, signalAborted |-> FALSE, listeners |-> NoListeners, abortedWhile |-> NotAborted,
   timers |-> {}, hpc |-> "idle", req |-> NoReq, attempt |-> 0, controllerAborted |-> FALSE,
   fetchCalls |-> 0, sleeps |-> << >>, responses |-> << >>, thrown |-> NoError,
   reqResult |-> NoResult, wpc |-> "idle", wopts |-> NoWaitOptions, startedAt |-> 0, lastStatus |-> undefined,
   polled |-> << >>, updates |-> << >>, statusCalls |-> 0, waitResult |-> NoResult,
   epc |-> "idle", rounds |-> << >>, handlerCalls |-> << >>, continuePolling |-> TRUE,
   execResult |-> NoResult, requests |-> << >>, mpc |-> "idle", methodResult |-> NoResult]

InitPair ==
  /\ client = WorkflowClient(ClientOptions(<<[maxAttempts |-> 1]>>, NoHeaders))
  /\ \E p \in Pairs :
       /\ call = PairCalls[p[1]]
       /\ inv = [current |-> 1, frame |-> FreshFrame(PairCalls[p[2]])]
  /\ signalAborted = FALSE /\ abortedWhile = NotAborted
  /\ req = NoReq /\ attempt = 0 /\ sleeps = << >>
  /\ NothingStarted

\* a variable declared in the class rather than in the body of waitForCompletion: the
\* invocation that resumes finds the value the other invocation left
local_shared(own, left) == left

\* a const or let of the body of waitForCompletion: the invocation that resumes finds
\* its own value
local(own, left) == own

\* the running invocation is suspended at an await and the other invocation resumes
Switch ==
  /\ inv.current # 0
  /\ inv' = [current |-> 3 - inv.current, frame |-> Frame]
  /\ call' = inv.frame.call
  /\ signalAborted' = inv.frame.signalAborted
  /\ listeners' = inv.frame.listeners
  /\ abortedWhile' = inv.frame.abortedWhile
  /\ timers' = inv.frame.timers
  /\ hpc' = inv.frame.hpc
  /\ req' = inv.frame.req
  /\ attempt' = inv.frame.attempt
  /\ controllerAborted' = inv.frame.controllerAborted
  /\ fetchCalls' = inv.frame.fetchCalls
  /\ sleeps' = inv.frame.sleeps
  /\ responses' = inv.frame.responses
  /\ thrown' = inv.frame.thrown
  /\ reqResult' = inv.frame.reqResult
  /\ wpc' = inv.frame.wpc
  /\ wopts' = local(inv.frame.wopts, wopts)
  /\ startedAt' = local(inv.frame.startedAt, startedAt)
  /\ lastStatus' = local(inv.frame.lastStatus, lastStatus)
  /\ polled' = inv.frame.polled
  /\ updates' = inv.frame.updates
  /\ statusCalls' = inv.frame.statusCalls
  /\ waitResult' = inv.frame.waitResult
  /\ epc' = inv.frame.epc
  /\ rounds' = inv.frame.rounds
  /\ handlerCalls' = inv.frame.handlerCalls
  /\ continuePolling' = inv.frame.continuePolling
  /\ execResult' = inv.frame.execResult
  /\ requests' = inv.frame.requests
  /\ mpc' = inv.frame.mpc
  /\ methodResult' = inv.frame.methodResult
  /\ UNCHANGED <<client, now>>

\* the server of the runs with two invocations answers every request, with 200 and a task
\* that is pending (after a POST), running, waiting or completed, or with 500
PairServer ==
  /\ responses[Len(responses)] \in {200, 500}
  /\ hpc = "returned" => reqResult.body.status \in {"RUNNING", "WAITING", "COMPLETED"} \/ req.method = "POST"

NextPair ==
  \/ Switch
  \/ Request
  \/ FetchRespond /\ PairServer'
  \/ BackoffDone
  \/ WaitForCompletion
  \/ WaitLoop /\ statusCalls < MaxPairPolls
  \/ WaitPollReturned
  \/ WaitPollThrew
  \/ SleepDone
  \/ AbortSignal
  \/ ExecuteAndWait
  \/ ExecWorkflowReturned
  \/ ExecWorkflowThrew
  \/ ExecWaitReturned
  \/ ExecWaitThrew
  \/ ExecuteWorkflow
  \/ GetTaskStatus
  \/ ContinueTask
  \/ MethodReturned
  \/ MethodThrew

SpecPair == InitPair /\ [][NextPair]_vars

(* ------------------------------ what is sent -------------------------- *)

InitSend ==
  /\ \E dh \in SendDefaultHeaders :
       client = WorkflowClient(ClientOptions(<<[maxAttempts |-> 2, initialDelayMs |-> 100]>>, dh))
  /\ \/ \E i \in SendInits :
          call = [op |-> "request", init |-> i, options |-> NoOptions, args |-> ValidArgs]
     \/ \E a \in SendExecuteInputs :
          call = [op |-> "executeWorkflow", init |-> NoInit, options |-> NoOptions, args |-> a]
  /\ signalAborted = FALSE /\ abortedWhile = NotAborted
  /\ req = NoReq /\ attempt = 0 /\ sleeps = << >>
  /\ inv = NoPair
  /\ NothingStarted

NextSend ==
  \/ Request
  \/ ExecuteWorkflow
  \/ FetchRespond
  \/ FetchThrows
  \/ AttemptTimeout
  \/ FetchAborted
  \/ BackoffDone
  \/ MethodReturned
  \/ MethodThrew

SpecSend == InitSend /\ [][NextSend]_vars

(* ------------------------------ backoff delays ------------------------- *)

\* the policies delayWithBackoff is applied to on its own: delays in units small enough to
\* show the cap being reached, missed and never reached
BackoffPolicies ==
  { [initialDelayMs |-> i, backoffFactor |-> f, maxDelayMs |-> m] :
      i \in {0, 1, 2, 3, 5}, f \in {0, 1, 2, 3}, m \in {0, 4, 10, 100} }

InitBackoff ==
  /\ client = WorkflowClient(ClientOptions(<< >>, NoHeaders))
  /\ \E p \in BackoffPolicies :
       /\ call = [op |-> "delayWithBackoff", init |-> [NoInit EXCEPT !.retry = <<p>>],
                  options |-> NoOptions, args |-> ValidArgs]
       /\ req = [NoReq EXCEPT !.retry = normalizeRetryConfig(<<p>>, <<client.defaultRetry>>)]
  /\ signalAborted = FALSE /\ abortedWhile = NotAborted
  /\ attempt = 0 /\ sleeps = << >>
  /\ inv = NoPair
  /\ NothingStarted

\* delayWithBackoff applied to the next attempt number: the delay it sleeps is recorded
DelayWithBackoff ==
  /\ call.op = "delayWithBackoff" /\ attempt < MaxBackoffAttempt
  /\ attempt' = attempt + 1
  /\ sleeps' = Append(sleeps, delayWithBackoff(attempt', req.retry))
  /\ UNCHANGED <<requests, mvars, inv, client, call, signalAborted, listeners, abortedWhile, timers, now, hpc, req,
                 controllerAborted, fetchCalls, responses, thrown, reqResult, wvars, evars>>

NextBackoff == DelayWithBackoff

SpecBackoff == InitBackoff /\ [][NextBackoff]_vars

(* ------------------------------ properties ----------------------------- *)

\* the stopping statuses of a direct waitForCompletion call, read off the options the caller passed
StopsCall(status) ==
  \/ status \in Nullish(call.options.fields, "terminalStatuses", {"COMPLETED", "FAILED", "CANCELED"})
  \/ status = "WAITING" /\ Nullish(call.options.fields, "exitOnWaiting", FALSE)

\* the stopping statuses of the waitForCompletion in progress
Stops(status) ==
  status \in wopts.terminalSet \/ (status = "WAITING" /\ wopts.exitOnWaiting)

\* C1: waitForCompletion polls up to the first stopping status and no further: a stopping
\* status is always the last one polled and ends the wait; on return the number of status
\* requests equals the position N of that status, the N-th record is returned, and no
\* request is in flight or follows.
C1_PollsUntilFirstStop ==
  call.op = "waitForCompletion" =>
    /\ \A i \in 1..Len(polled) : StopsCall(polled[i]) => (i = Len(polled) /\ wpc = "returned")
    /\ wpc = "returned" =>
         /\ Len(polled) >= 1
         /\ StopsCall(polled[Len(polled)])
         /\ statusCalls = Len(polled)
         /\ waitResult.body = [taskId |-> TaskId, status |-> polled[Len(polled)]]
         /\ hpc = "idle"

C1_Witness ==
  /\ call.op = "waitForCompletion" /\ wpc = "returned"
  /\ polled = <<"PENDING", "RUNNING", "COMPLETED">>
  /\ statusCalls = 3
  /\ waitResult.body.status = "COMPLETED"

\* C2: in executeAndWait with an onWaiting handler every round runs with exitOnWaiting
\* true; the handler is called exactly when a round returns WAITING, with that record; a
\* round returning another status ends executeAndWait with that record; after the handler
\* answers true a new round starts, after false the WAITING record is returned with no
\* further request.
C2_HandlerRounds ==
  [][(call.op = "executeAndWait" /\ call.options.onWaiting) =>
       /\ \A i \in 1..Len(rounds') : rounds'[i] = TRUE
       /\ (epc = "round" /\ wpc = "returned" /\ wpc' # "returned") =>
            IF waitResult.body.status = "WAITING"
              THEN epc' = "handler" /\ handlerCalls' = Append(handlerCalls, waitResult.body)
              ELSE epc' = "returned" /\ execResult'.body = waitResult.body
                     /\ execResult'.error = NoError /\ handlerCalls' = handlerCalls
       /\ handlerCalls' # handlerCalls => (epc = "round" /\ wpc = "returned")
       /\ (epc = "handler" /\ epc' # "handler") =>
            /\ epc' = "round" =>
                 (continuePolling' /\ rounds' = Append(rounds, TRUE) /\ wpc' = "loop"
                    /\ fetchCalls' = fetchCalls)
            /\ epc' = "returned" =>
                 (~continuePolling' /\ execResult'.body = handlerCalls[Len(handlerCalls)]
                    /\ execResult'.body.status = "WAITING"
                    /\ fetchCalls' = fetchCalls /\ statusCalls' = statusCalls)
            /\ ~continuePolling' => epc' = "returned"
            /\ epc' = "threw" => execResult'.error.message = <<"onWaiting failed">>
            /\ epc' \in {"round", "returned", "threw"}
       /\ epc = "returned" => (fetchCalls' = fetchCalls /\ statusCalls' = statusCalls)]_vars

C2_Witness ==
  /\ call.op = "executeAndWait" /\ call.options.onWaiting
  /\ "exitOnWaiting" \in DOMAIN call.options.fields /\ ~call.options.fields.exitOnWaiting
  /\ epc = "returned" /\ execResult.body.status = "COMPLETED"
  /\ Len(handlerCalls) = 1 /\ rounds = <<TRUE, TRUE>>
  /\ polled = <<"RUNNING", "COMPLETED">>
  /\ fetchCalls = 4

\* C3: executeAndWait without an onWaiting handler runs waitForCompletion with
\* exitOnWaiting true, so a poll that reports WAITING is the last poll and its record is
\* what executeAndWait returns.
C3_NoHandlerStopsOnWaiting ==
  (call.op = "executeAndWait" /\ ~call.options.onWaiting) =>
    /\ \A i \in 1..Len(rounds) : rounds[i] = TRUE
    /\ \A i \in 1..Len(polled) :
         polled[i] = "WAITING" => (i = Len(polled) /\ wpc \in {"returned", "idle"} /\ epc \in {"tail", "returned"})

\* C3 (amended): executeAndWait without an onWaiting handler makes one waitForCompletion
\* call with the caller's own exitOnWaiting (false when absent) and returns what it returns:
\* a WAITING poll ends it only if the caller's options make WAITING a stopping status,
\* otherwise polling goes on; the handler is never called and no request but the initial
\* POST and the status GETs is made.
C3_NoHandlerKeepsCallerOptions ==
  (call.op = "executeAndWait" /\ ~call.options.onWaiting) =>
    /\ Len(rounds) <= 1
    /\ \A i \in 1..Len(rounds) : rounds[i] = Nullish(call.options.fields, "exitOnWaiting", FALSE)
    /\ handlerCalls = << >>
    /\ \A i \in 1..Len(polled) :
         polled[i] = "WAITING" =>
           IF StopsCall("WAITING")
             THEN i = Len(polled) /\ wpc \in {"returned", "idle"} /\ epc \in {"tail", "returned"}
             ELSE i = Len(polled) => (wpc # "returned" /\ epc # "returned")
    /\ epc = "returned" => (execResult.body = waitResult.body /\ StopsCall(execResult.body.status))
    /\ (epc \notin {"idle", "executing"} /\ hpc # "idle") => req.method = "GET"

C3_Witness ==
  /\ call.op = "executeAndWait" /\ ~call.options.onWaiting
  /\ "exitOnWaiting" \notin DOMAIN call.options.fields
  /\ polled = <<"WAITING", "WAITING", "COMPLETED">>
  /\ epc = "returned" /\ execResult.body.status = "COMPLETED"

\* the delay the policy r prescribes after attempt n
BackoffOf(n, r) ==
  LET raw == r.initialDelayMs * Pow(r.backoffFactor, n - 1)
  IN IF raw < r.maxDelayMs THEN raw ELSE r.maxDelayMs

\* C4: while every response of a request has a retryable status (a status that is not ok
\* and is listed in retryOnStatuses), the request performs one
\* backoff sleep after each attempt but the last, the sleep after attempt n lasts
\* min(initialDelayMs * backoffFactor^(n-1), maxDelayMs), and it ends after exactly
\* maxAttempts attempts with a WorkflowAPIError carrying the status of the last response.
C4_RetryBound ==
  (hpc # "idle" /\ \A i \in 1..Len(responses) :
      responses[i] # 0 /\ ~ok(responses[i]) /\ responses[i] \in req.retry.retryOnStatuses) =>
    /\ \A n \in 1..Len(sleeps) : sleeps[n] = BackoffOf(n, req.retry)
    /\ hpc # "returned"
    /\ hpc = "fetching" => (Len(responses) = attempt - 1 /\ Len(sleeps) = attempt - 1)
    /\ hpc = "backoff" => (Len(responses) = attempt /\ Len(sleeps) = attempt /\ attempt < req.retry.maxAttempts)
    /\ hpc = "threw" =>
         /\ attempt = req.retry.maxAttempts
         /\ Len(responses) = req.retry.maxAttempts
         /\ Len(sleeps) = req.retry.maxAttempts - 1
         /\ call.op = "request" => fetchCalls = req.retry.maxAttempts
         /\ reqResult.error.name = "WorkflowAPIError"
         /\ reqResult.error.status = responses[Len(responses)]

C4_Witness ==
  /\ call.op = "request" /\ hpc = "threw"
  /\ responses = <<500, 500, 500>>
  /\ sleeps = <<1000, 1500>>
  /\ fetchCalls = 3
  /\ reqResult.error.status = 500

\* C5: an attempt aborted by the caller's own signal (its timeout timer still pending)
\* ends request() at once with the cancellation error itself: no backoff sleep, no further
\* attempt, no WorkflowAPIError wrapper.
C5_CancellationNotRetried ==
  [][(hpc = "fetching" /\ controllerAborted /\ req.signal /\ signalAborted /\ "timeout" \in timers
        /\ hpc' # "fetching") =>
       (hpc' = "threw" /\ reqResult'.error = AbortErrorValue /\ sleeps' = sleeps /\ fetchCalls' = fetchCalls)]_vars

\* C6: under the built-in policy an attempt that timed out without the caller having
\* cancelled is followed by a backoff sleep and another attempt while attempt < 3, and
\* only the third attempt's timeout fails the request, with a status-0 WorkflowAPIError.
C6_TimeoutRetried ==
  [][(hpc = "fetching" /\ controllerAborted /\ ~signalAborted /\ req.retry = BuiltinRetry
        /\ hpc' # "fetching") =>
       IF attempt < 3
         THEN hpc' = "backoff" /\ sleeps' = Append(sleeps, BackoffOf(attempt, req.retry))
         ELSE hpc' = "threw" /\ reqResult'.error.name = "WorkflowAPIError" /\ reqResult'.error.status = 0]_vars

\* the transient network classes: connection reset, DNS failure, timeout, socket termination
TransientFailure(error) ==
  /\ error.name \in {"Error", "TypeError"}
  /\ \E i \in 1..Len(error.message) :
       error.message[i] \in {"ECONNRESET", "ENOTFOUND", "EAI_AGAIN", "ETIMEDOUT", "socket hang up"}

\* C7: a failure thrown by the call is followed by a backoff sleep and another attempt
\* when it is of a transient class and attempt < maxAttempts; otherwise request() fails
\* with a status-0 WorkflowAPIError whose cause is the thrown failure.
C7_TransientRetried ==
  [][(hpc = "fetching" /\ ~controllerAborted /\ Len(responses') = Len(responses) + 1
        /\ responses'[Len(responses')] = 0) =>
       IF TransientFailure(thrown') /\ attempt < req.retry.maxAttempts
         THEN hpc' = "backoff" /\ sleeps' = Append(sleeps, BackoffOf(attempt, req.retry))
         ELSE hpc' = "threw" /\ reqResult'.error.name = "WorkflowAPIError"
                /\ reqResult'.error.status = 0 /\ reqResult'.error.cause = <<thrown'>>]_vars

\* C8: a non-2xx response leads to a backoff sleep exactly when attempt < maxAttempts and
\* its status is in retryOnStatuses; otherwise request() throws the WorkflowAPIError of
\* that response in the same step, with no sleep, and no fetch call follows a throw.
C8_StatusRetry ==
  [][/\ (hpc = "fetching" /\ Len(responses') = Len(responses) + 1
           /\ responses'[Len(responses')] \notin ({0} \cup (200..299))) =>
          LET status == responses'[Len(responses')]
          IN IF attempt < req.retry.maxAttempts /\ status \in req.retry.retryOnStatuses
               THEN hpc' = "backoff" /\ Len(sleeps') = Len(sleeps) + 1 /\ reqResult' = reqResult
               ELSE /\ hpc' = "threw"
                    /\ reqResult'.error.name = "WorkflowAPIError"
                    /\ reqResult'.error.status = status
                    /\ sleeps' = sleeps /\ "backoff" \notin timers'
                    /\ fetchCalls' = fetchCalls
     /\ hpc = "threw" => fetchCalls' = fetchCalls]_vars

C8_Witness ==
  /\ call.op = "request" /\ hpc = "threw"
  /\ req.retry = BuiltinRetry
  /\ responses = <<400>> /\ fetchCalls = 1 /\ sleeps = << >>
  /\ reqResult.error.status = 400

\* C9: a poll that returns a non-stopping status when the time since the loop began is at
\* least maxWaitTimeMs makes waitForCompletion fail with a WorkflowAPIError of status 0 and
\* reason POLL_TIMEOUT carrying the taskId and that status; the status carried is the one
\* of the latest poll and never a stopping one, and no poll or sleep follows.
C9_PollTimeout ==
  [][/\ (wpc = "polling" /\ hpc = "returned" /\ wpc' # "polling"
           /\ ~Stops(reqResult.body.status) /\ now - startedAt >= wopts.maxWaitTimeMs) =>
          /\ wpc' = "threw"
          /\ waitResult'.error =
               WorkflowAPIError(0, "POLL_TIMEOUT", [taskId |-> TaskId, lastStatus |-> reqResult.body.status], NoCause)
     /\ waitResult'.error.statusText = "POLL_TIMEOUT" =>
          /\ wpc' \in {"threw", "idle"}
          /\ waitResult'.error.name = "WorkflowAPIError" /\ waitResult'.error.status = 0
          /\ waitResult'.error.data.taskId = TaskId
          /\ Len(polled') >= 1
          /\ waitResult'.error.data.lastStatus = polled'[Len(polled')]
          /\ ~Stops(waitResult'.error.data.lastStatus)
          /\ waitResult'.at - startedAt' >= wopts'.maxWaitTimeMs
          /\ statusCalls' = statusCalls /\ fetchCalls' = fetchCalls
          /\ "sleep" \notin timers' /\ hpc' = "idle"]_vars

C9_Witness ==
  /\ call.op = "waitForCompletion" /\ wpc = "threw"
  /\ waitResult.error.statusText = "POLL_TIMEOUT"
  /\ polled = <<"PENDING", "RUNNING">>
  /\ waitResult.error.data.lastStatus = "RUNNING"
  /\ wopts.maxWaitTimeMs = 2000

\* C10: when the caller aborts its signal while waitForCompletion is in the poll-interval
\* sleep, the sleep is rejected in that very step, before pollIntervalMs has passed, its
\* timer is cleared, waitForCompletion fails with an AbortError, and no status request or
\* fetch call is made from then on.
C10_AbortDuringSleep ==
  [][/\ (wpc = "sleeping" /\ wopts.signal /\ ~signalAborted /\ signalAborted') =>
          /\ wpc' = "threw"
          /\ waitResult'.error.name = "AbortError"
          /\ waitResult'.at = now'
          /\ now' = now \/ now' - now < wopts.pollIntervalMs
          /\ "sleep" \notin timers'
     /\ abortedWhile'.wpc = "sleeping" =>
          /\ statusCalls' = statusCalls /\ fetchCalls' = fetchCalls
          /\ waitResult'.error.name = "AbortError"]_vars

C10_Witness ==
  /\ call.op = "waitForCompletion" /\ wpc = "threw"
  /\ abortedWhile.wpc = "sleeping"
  /\ waitResult.error.name = "AbortError"
  /\ Len(polled) = 2 /\ statusCalls = 2
  /\ timers = {}

\* C11: when the caller aborts its signal while a status request of waitForCompletion is
\* in flight, the fetch call in flight is aborted in that very step, and that poll ends
\* waitForCompletion with an AbortError: it neither returns a record nor fails with another
\* error.
C11_AbortDuringPoll ==
  [][/\ (wpc = "polling" /\ hpc = "fetching" /\ wopts.signal /\ ~signalAborted /\ signalAborted') =>
          controllerAborted'
     /\ (abortedWhile.wpc = "polling" /\ abortedWhile.hpc = "fetching" /\ wpc = "polling"
           /\ wpc' # "polling") =>
          (wpc' = "threw" /\ waitResult'.error.name = "AbortError")]_vars

\* C12: when the caller aborts its signal while request() is in a backoff sleep, the sleep
\* ends in that very step, request() fails with the cancellation error, and no further
\* attempt is made.
C12_AbortDuringBackoff ==
  [][/\ (hpc = "backoff" /\ req.signal /\ ~signalAborted /\ signalAborted') =>
          (hpc' = "threw" /\ reqResult'.error = AbortErrorValue /\ "backoff" \notin timers')
     /\ (call.op = "request" /\ abortedWhile.hpc = "backoff") => fetchCalls' = fetchCalls]_vars

\* a sequence with every run of equal consecutive elements reduced to one element
RECURSIVE Collapse(_)
Collapse(seq) ==
  IF Len(seq) <= 1 THEN seq
  ELSE LET front == Collapse(SubSeq(seq, 1, Len(seq) - 1))
       IN IF seq[Len(seq)] = seq[Len(seq) - 1] THEN front ELSE Append(front, seq[Len(seq)])

\* C13: the statuses passed to onUpdate by one waitForCompletion call are the statuses of
\* its polls in the order polled with consecutive duplicates collapsed: the first poll and
\* every poll whose status differs from the poll before it fire the callback once, a poll
\* repeating the status of the poll before it does not.
C13_UpdatesCollapsePolls ==
  /\ updates = Collapse(polled)
  /\ lastStatus = IF polled = << >> THEN undefined ELSE polled[Len(polled)]

C13_Witness ==
  /\ call.op = "waitForCompletion"
  /\ polled = <<"PENDING", "PENDING", "RUNNING">>
  /\ updates = <<"PENDING", "RUNNING">>

\* the number of calls of onUpdate with the status value v
UpdatesWith(v) == Cardinality({i \in 1..Len(updates) : updates[i] = v})

\* the number of maximal runs of consecutive polls that returned the status value v
RunsOf(v) == Cardinality({i \in 1..Len(polled) : polled[i] = v /\ (i = 1 \/ polled[i - 1] # v)})

\* C14: over one waitForCompletion call, onUpdate is called exactly once with every status
\* value that at least one poll returned, whatever the sequence of polled statuses.
C14_OncePerDistinctValue ==
  \A i \in 1..Len(polled) : UpdatesWith(polled[i]) = 1

\* C14 (amended): over one waitForCompletion call, onUpdate is called with a status value v
\* once for every maximal run of consecutive polls returning v: at least once for every
\* value polled, more than once for a value that comes back after a different status, and
\* never for a value no poll returned.
C14_OncePerRun ==
  \A v \in WorkflowStatus : UpdatesWith(v) = RunsOf(v)

C14_Witness ==
  /\ call.op = "waitForCompletion"
  /\ polled = <<"PENDING", "RUNNING", "PENDING">>
  /\ updates = <<"PENDING", "RUNNING", "PENDING">>

\* C15: continueTask with a valid taskId, decision REJECT and a message that is absent or
\* empty throws the local error 'message is required when decision is REJECT', which is no
\* WorkflowAPIError, without any request or fetch call; with decision APPROVE, or REJECT
\* and a non-empty message, it makes exactly one request, a POST to /api/v1/continue.
C15_RejectNeedsMessage ==
  (call.op = "continueTask" /\ call.args.taskId = StringValue("task-1") /\ mpc # "idle") =>
    IF call.args.decision = "REJECT" /\ call.args.message \in {MissingValue, StringValue("")}
      THEN /\ mpc = "threw"
           /\ methodResult.error.name = "Error"
           /\ methodResult.error.message = <<"message is required when decision is REJECT">>
           /\ requests = << >> /\ fetchCalls = 0 /\ hpc = "idle"
      ELSE /\ requests = <<[method |-> "POST", url |-> "/api/v1/continue"]>>
           /\ fetchCalls >= 1
           /\ mpc = "threw" => methodResult.error.name = "WorkflowAPIError"

C15_Witness ==
  /\ call.op = "continueTask" /\ call.args.taskId = StringValue("task-1")
  /\ call.args.decision = "REJECT" /\ call.args.message = StringValue("")
  /\ mpc = "threw" /\ fetchCalls = 0
  /\ methodResult.error.message = <<"message is required when decision is REJECT">>

\* the call the caller makes fails the validation of its arguments
InvalidCall ==
  \/ /\ call.op \in {"executeWorkflow", "executeAndWait"}
     /\ call.args.workflowId \in InvalidStrings \/ call.args.input.circular
  \/ /\ call.op \in {"getTaskStatus", "continueTask", "waitForCompletion"}
     /\ call.args.taskId \in InvalidStrings

\* the outcome of the operation the caller invoked
CallResult ==
  CASE call.op = "request" -> reqResult
    [] call.op = "waitForCompletion" -> waitResult
    [] call.op = "executeAndWait" -> execResult
    [] OTHER -> methodResult

\* the operation the caller invoked has not been started yet
NotStarted ==
  CASE call.op = "request" -> hpc = "idle"
    [] call.op = "waitForCompletion" -> wpc = "idle"
    [] call.op = "executeAndWait" -> epc = "idle"
    [] OTHER -> mpc = "idle"

\* C16: a call whose arguments fail validation (workflowId or taskId not a non-empty
\* string, input not serializable) throws a plain Error, no WorkflowAPIError, in its first
\* step: no request is made, no fetch call, no backoff sleep, no timer.
C16_ValidationBeforeNetwork ==
  InvalidCall =>
    /\ requests = << >> /\ fetchCalls = 0 /\ statusCalls = 0
    /\ sleeps = << >> /\ timers = {} /\ hpc = "idle"
    /\ ~NotStarted =>
         /\ Settled
         /\ CallResult.error.name = "Error"
         /\ CallResult.error.message \in
              { <<"workflowId", "must be a non-empty string">>, <<"taskId", "must be a non-empty string">>,
                <<"input", "must be JSON serializable">> }

C16_Witness ==
  /\ call.op = "executeWorkflow"
  /\ call.args.workflowId = StringValue("   ")
  /\ mpc = "threw" /\ fetchCalls = 0 /\ requests = << >>
  /\ methodResult.error.message = <<"workflowId", "must be a non-empty string">>

\* C17: request() returns only from an attempt that received a 2xx response: a 2xx
\* response is the last response of its request and ends it, and a request that returned
\* has a 2xx status as its last response and no error.
C17_ReturnsOnly2xx ==
  /\ \A i \in 1..Len(responses) :
       responses[i] \in 200..299 => (i = Len(responses) /\ hpc \in {"returned", "threw"})
  /\ hpc = "returned" =>
       /\ Len(responses) >= 1
       /\ responses[Len(responses)] \in 200..299
       /\ reqResult.error = NoError
       /\ "backoff" \notin timers

C17_Witness ==
  /\ call.op = "request" /\ hpc = "returned"
  /\ responses = <<500, 200>> /\ fetchCalls = 2
  /\ reqResult.body.status = "RUNNING"

\* C18: when the status request of a poll throws, waitForCompletion throws that very error
\* in the same step: the callback is not called, nothing is added to the polled statuses,
\* no sleep is started, and no status request or fetch call follows.
C18_PollFailurePropagates ==
  [][/\ (wpc = "polling" /\ hpc = "threw" /\ wpc' # "polling") =>
          /\ wpc' = "threw"
          /\ waitResult'.error = reqResult.error
          /\ waitResult'.error.statusText \notin {"POLL_TIMEOUT"}
          /\ waitResult'.error.name # "AbortError"
          /\ updates' = updates /\ polled' = polled
          /\ statusCalls' = statusCalls /\ fetchCalls' = fetchCalls
          /\ "sleep" \notin timers' /\ now' = now
     /\ wpc = "threw" => (statusCalls' = statusCalls /\ fetchCalls' = fetchCalls)]_vars

C18_Witness ==
  /\ call.op = "waitForCompletion" /\ wpc = "threw"
  /\ waitResult.error.name = "WorkflowAPIError" /\ waitResult.error.status = 500
  /\ polled = <<"RUNNING">> /\ updates = <<"RUNNING">>
  /\ statusCalls = 2 /\ fetchCalls = 3

\* C19: an iteration of waitForCompletion that begins with the signal aborted throws an
\* AbortError without a status request; while the signal is aborted no status request is
\* started, and a wait called with the signal already aborted makes no fetch call at all.
C19_AbortCheckedEachIteration ==
  [][/\ (wpc = "loop" /\ wopts.signal /\ signalAborted /\ wpc' # "loop") =>
          /\ wpc' = "threw"
          /\ waitResult'.error.name = "AbortError"
          /\ statusCalls' = statusCalls /\ fetchCalls' = fetchCalls /\ requests' = requests
     /\ (wpc # "idle" /\ wopts.signal /\ signalAborted) =>
          (statusCalls' = statusCalls /\ requests' = requests)
     /\ (call.op = "waitForCompletion" /\ abortedWhile'.wpc = "before") =>
          (fetchCalls' = 0 /\ statusCalls' = 0 /\ requests' = << >>)]_vars

C19_Witness ==
  /\ call.op = "waitForCompletion" /\ call.options.signal
  /\ abortedWhile.wpc = "before"
  /\ wpc = "threw" /\ waitResult.error.name = "AbortError"
  /\ fetchCalls = 0 /\ statusCalls = 0

\* C20: the polls of one waitForCompletion call are sequential: a status request starts
\* only at the head of the loop with no request in flight and no sleep pending; the head
\* of the loop is reached only on entry or when the poll-interval timer has fired after
\* pollIntervalMs; the sleep starts only once the poll before it has returned and its
\* status has been processed; and outside a poll no request is in flight.
C20_PollsSequential ==
  [][/\ statusCalls' # statusCalls =>
          /\ statusCalls' = statusCalls + 1
          /\ wpc = "loop" /\ wpc' = "polling"
          /\ hpc = "idle" /\ hpc' = "fetching"
          /\ "sleep" \notin timers
          /\ Len(requests') = Len(requests) + 1
     /\ (wpc' = "loop" /\ wpc # "loop") =>
          \/ wpc = "idle" /\ polled' = << >>
          \/ wpc = "sleeping" /\ "sleep" \in timers /\ "sleep" \notin timers'
               /\ now' = now + wopts.pollIntervalMs /\ Len(polled) >= 1
     /\ (wpc' = "sleeping" /\ wpc # "sleeping") =>
          /\ wpc = "polling" /\ hpc = "returned"
          /\ polled' = Append(polled, reqResult.body.status)
          /\ lastStatus' = reqResult.body.status
     /\ wpc' \in {"loop", "sleeping", "returned", "threw"} => hpc' = "idle"
     /\ wpc' = "polling" => hpc' # "idle"]_vars

C20_Witness ==
  /\ call.op = "waitForCompletion"
  /\ wpc = "polling" /\ hpc = "fetching"
  /\ statusCalls = 3 /\ Len(polled) = 2 /\ Len(requests) = 3
  /\ now - startedAt = 2 * wopts.pollIntervalMs + 400

\* C22: every turn of the executeAndWait loop ends by returning a record, by throwing the
\* error of waitForCompletion or of the handler, by calling the handler on a WAITING
\* record, or by starting another turn after the handler answered true; the error
\* 'Unexpected: executeAndWait exited without returning' is never thrown.
C22_LoopNeverFallsOff ==
  [][/\ execResult'.error.message # <<"Unexpected: executeAndWait exited without returning">>
     /\ (call.options.onWaiting /\ epc = "round" /\ epc' # "round") =>
          \/ epc' = "returned" /\ wpc = "returned" /\ execResult'.body = waitResult.body
               /\ execResult'.body.status # "WAITING"
          \/ epc' = "handler" /\ wpc = "returned" /\ waitResult.body.status = "WAITING"
          \/ epc' = "threw" /\ wpc = "threw" /\ execResult'.error = waitResult.error
     /\ (epc = "handler" /\ epc' # "handler") =>
          \/ epc' = "returned" /\ ~continuePolling' /\ execResult'.body = handlerCalls[Len(handlerCalls)]
          \/ epc' = "round" /\ continuePolling' /\ Len(rounds') = Len(rounds) + 1
          \/ epc' = "threw" /\ execResult'.error.message = <<"onWaiting failed">>]_vars

C22_Witness ==
  /\ call.op = "executeAndWait" /\ call.options.onWaiting
  /\ epc = "returned" /\ ~continuePolling
  /\ Len(handlerCalls) = 2 /\ Len(rounds) = 2
  /\ execResult.body.status = "WAITING"

\* C23: when request() has returned or thrown no timeout or backoff timer is pending, and
\* when waitForCompletion has returned or thrown no timer at all is pending: the step that
\* ends an attempt clears the attempt's timeout timer however the attempt ends, and the
\* step that cancels the poll-interval sleep clears the sleep's timer.
C23_NoTimerLeft ==
  [][/\ hpc' \in {"returned", "threw"} => timers' \cap {"timeout", "backoff"} = {}
     /\ wpc' \in {"returned", "threw"} => timers' = {}
     /\ Settled' => timers' = {}
     /\ (hpc = "fetching" /\ hpc' # "fetching") => "timeout" \notin timers'
     /\ (wpc = "sleeping" /\ wpc' = "threw") => "sleep" \notin timers']_vars

C23_Witness ==
  /\ call.op = "request" /\ hpc = "threw"
  /\ req.timeoutMs = 100 /\ responses = <<0, 0>> /\ Len(sleeps) = 1
  /\ thrown.message[1] = "Request aborted after"
  /\ timers = {}

\* C24: the terminal set in force is the caller's terminalStatuses when given and
\* {COMPLETED, FAILED, CANCELED} otherwise; waitForCompletion returns a record only if its
\* status is in that set or is WAITING with exitOnWaiting true; with the default set and
\* exitOnWaiting false a WAITING status is never returned and the wait goes on after it.
C24_ReturnsOnlyStopping ==
  wpc \in {"loop", "polling", "sleeping", "returned"} =>
    /\ wopts.terminalSet =
         IF "terminalStatuses" \in DOMAIN call.options.fields
           THEN call.options.fields.terminalStatuses ELSE {"COMPLETED", "FAILED", "CANCELED"}
    /\ wpc = "returned" =>
         \/ waitResult.body.status \in wopts.terminalSet
         \/ waitResult.body.status = "WAITING" /\ wopts.exitOnWaiting
    /\ ("terminalStatuses" \notin DOMAIN call.options.fields /\ ~wopts.exitOnWaiting) =>
         /\ wpc = "returned" => waitResult.body.status \in {"COMPLETED", "FAILED", "CANCELED"}
         /\ (polled # << >> /\ polled[Len(polled)] = "WAITING") => wpc \in {"loop", "polling", "sleeping"}

C24_Witness ==
  /\ call.op = "waitForCompletion" /\ call.options.fields = EmptyObject
  /\ polled = <<"WAITING", "WAITING", "COMPLETED">>
  /\ wpc = "returned" /\ waitResult.body.status = "COMPLETED"

\* C25: executeWorkflow, getTaskStatus and continueTask call request() once, and every poll
\* of waitForCompletion calls request() once (executeAndWait once more for its
\* executeWorkflow); a request makes between 1 and maxAttempts fetch calls, so N polls make
\* at least N and at most N * maxAttempts fetch calls.
C25_OneTransportCallEach ==
  /\ hpc # "idle" => (attempt >= 1 /\ attempt <= req.retry.maxAttempts /\ Len(responses) <= req.retry.maxAttempts)
  /\ (call.op \in {"executeWorkflow", "getTaskStatus", "continueTask"} /\ mpc # "idle" /\ ~InvalidCall
        /\ requests # << >>) =>
       /\ Len(requests) = 1
       /\ fetchCalls >= 1 /\ fetchCalls <= client.defaultRetry.maxAttempts
  /\ call.op = "waitForCompletion" =>
       /\ Len(requests) = statusCalls
       /\ fetchCalls >= statusCalls /\ fetchCalls <= statusCalls * client.defaultRetry.maxAttempts
  /\ (call.op = "executeAndWait" /\ epc \notin {"idle", "threw"}) =>
       /\ Len(requests) = 1 + statusCalls
       /\ fetchCalls >= 1 + statusCalls
       /\ fetchCalls <= (1 + statusCalls) * client.defaultRetry.maxAttempts
  /\ call.op = "request" => fetchCalls <= req.retry.maxAttempts

C25_Witness ==
  /\ call.op = "waitForCompletion" /\ client.defaultRetry.maxAttempts = 2
  /\ wpc = "threw" /\ polled = <<"RUNNING">>
  /\ statusCalls = 2 /\ Len(requests) = 2 /\ fetchCalls = 4

\* the fields of a retry policy
RetryFields == {"maxAttempts", "initialDelayMs", "backoffFactor", "maxDelayMs", "retryOnStatuses"}

\* the built-in policy as documented
DocumentedRetry ==
  [maxAttempts |-> 3, initialDelayMs |-> 1000, backoffFactor |-> 2, maxDelayMs |-> 30000,
   retryOnStatuses |-> {408, 425, 429} \cup (500..599)]

\* the field f of the first layer that gives it: per-call override, client option, built-in
Layered(f) ==
  IF call.init.retry # << >> /\ f \in DOMAIN call.init.retry[1] THEN call.init.retry[1][f]
  ELSE IF client.options.retry # << >> /\ f \in DOMAIN client.options.retry[1] THEN client.options.retry[1][f]
  ELSE DocumentedRetry[f]

\* the statuses of the first layer that gives a non-empty list
LayeredStatuses ==
  IF /\ call.init.retry # << >> /\ "retryOnStatuses" \in DOMAIN call.init.retry[1]
     /\ call.init.retry[1].retryOnStatuses # {}
    THEN call.init.retry[1].retryOnStatuses
  ELSE IF /\ client.options.retry # << >> /\ "retryOnStatuses" \in DOMAIN client.options.retry[1]
          /\ client.options.retry[1].retryOnStatuses # {}
    THEN client.options.retry[1].retryOnStatuses
  ELSE DocumentedRetry.retryOnStatuses

\* C27: the policy in force for a request() call has every field equal to the per-call
\* override's when given there, else the client option's when given there, else the
\* built-in value; its maxAttempts is at least 1; it stays the same during the request.
C27_PolicyFieldwise ==
  [][(call.op = "request" /\ hpc' # "idle") =>
       /\ \A f \in RetryFields : req'.retry[f] = Layered(f)
       /\ req'.retry.maxAttempts >= 1
       /\ hpc # "idle" => req'.retry = req.retry]_vars

\* C27 (amended): initialDelayMs, backoffFactor and maxDelayMs of the policy in force are
\* the per-call override's when given there, else the client option's, else the built-in
\* value; maxAttempts likewise, raised to 1 when the value given is below 1;
\* retryOnStatuses likewise, an empty list counting as not given; the policy stays the
\* same during the request.
C27_PolicyLayered ==
  [][(call.op = "request" /\ hpc' # "idle") =>
       /\ \A f \in {"initialDelayMs", "backoffFactor", "maxDelayMs"} : req'.retry[f] = Layered(f)
       /\ req'.retry.maxAttempts = IF Layered("maxAttempts") < 1 THEN 1 ELSE Layered("maxAttempts")
       /\ req'.retry.retryOnStatuses = LayeredStatuses
       /\ req'.retry.maxAttempts >= 1
       /\ hpc # "idle" => req'.retry = req.retry]_vars

C27_Witness ==
  /\ call.op = "request" /\ hpc = "threw"
  /\ client.options.retry = <<[maxAttempts |-> 2, initialDelayMs |-> 100]>>
  /\ call.init.retry = <<[retryOnStatuses |-> {}]>>
  /\ req.retry = [maxAttempts |-> 2, initialDelayMs |-> 100, backoffFactor |-> 2, maxDelayMs |-> 30000,
                  retryOnStatuses |-> {408, 425, 429} \cup (500..599)]
  /\ responses = <<500, 500>> /\ sleeps = <<100>>

\* C30: the delay slept after attempt n is min(initialDelayMs * backoffFactor^(n-1),
\* maxDelayMs), the same every time; it never exceeds maxDelayMs; after attempt 1 it is
\* min(initialDelayMs, maxDelayMs); with backoffFactor >= 1 the delays never decrease, and
\* with backoffFactor > 1 and initialDelayMs > 0 they grow strictly until the cap is reached.
C30_BackoffDelay ==
  call.op = "delayWithBackoff" =>
    LET r == call.init.retry[1]
    IN \A n \in 1..Len(sleeps) :
         LET raw == r.initialDelayMs * Pow(r.backoffFactor, n - 1)
         IN /\ sleeps[n] = IF raw <= r.maxDelayMs THEN raw ELSE r.maxDelayMs
            /\ sleeps[n] <= r.maxDelayMs
            /\ n = 1 => sleeps[n] = IF r.initialDelayMs <= r.maxDelayMs THEN r.initialDelayMs ELSE r.maxDelayMs
            /\ (n > 1 /\ r.backoffFactor >= 1) => sleeps[n] >= sleeps[n - 1]
            /\ (n > 1 /\ r.backoffFactor > 1 /\ r.initialDelayMs > 0 /\ sleeps[n - 1] < r.maxDelayMs) =>
                 sleeps[n] > sleeps[n - 1]

C30_Witness ==
  /\ call.op = "delayWithBackoff"
  /\ call.init.retry[1] = [initialDelayMs |-> 2, backoffFactor |-> 3, maxDelayMs |-> 10]
  /\ sleeps = <<2, 6, 10, 10>>

\* the three layers of headers of the call in progress, in the order they are merged: the
\* built-in ones, the client's defaultHeaders option, the headers option of the call
HeaderLayers ==
  << << <<"Accept", "application/json">>, <<"User-Agent", buildUserAgent>>, <<"x-api-key", client.options.apiKey>> >>,
     client.options.defaultHeaders,
     IF call.op = "request" THEN call.init.headers ELSE NoHeaders >>

\* the header names the layers give, lower case
LayerNames == UNION { { toLowerCase(HeaderLayers[l][i][1]) : i \in 1..Len(HeaderLayers[l]) } : l \in 1..3 }

\* the value the last layer that names the header gives it
RECURSIVE LatestOf(_, _)
LatestOf(name, l) ==
  LET given == SelectSeq(HeaderLayers[l], LAMBDA e : toLowerCase(e[1]) = name)
  IN IF given # << >> THEN given[Len(given)][2]
     ELSE IF l > 1 THEN LatestOf(name, l - 1) ELSE "@"

\* C28: the headers sent are the built-in ones overridden by the client's defaultHeaders
\* overridden by the headers of the call; a name given by several layers, in any letter
\* case, is sent with exactly one value, the one of the last layer that gives it.
C28_LaterLayerWins ==
  hpc # "idle" =>
    \A name \in LayerNames : HeadersGet(req.headers, name) = <<LatestOf(name, 3)>>

\* a request is in progress whose Accept header is given by the client's defaultHeaders in
\* lower case and by no header of the call
C28_Witness ==
  /\ hpc = "fetching" /\ call.op = "request"
  /\ client.options.defaultHeaders = << <<"accept", "text/plain">> >>
  /\ call.init.headers = NoHeaders
  /\ HeadersGet(req.headers, "accept") = <<"application/json", "text/plain">>

\* the content-type header given explicitly to the call in progress (<< >> when none is)
ExplicitContentType ==
  IF "content-type" \in LayerNames THEN <<LatestOf("content-type", 3)>> ELSE << >>

\* the body handed to request() by the call in progress
GivenBody == IF call.op = "executeWorkflow" THEN executePayload(call.args) ELSE call.init.body

\* C29: the code adds Content-Type: application/json and sends the body JSON-serialized
\* exactly when the body is a plain structured value and no content-type was given; a
\* binary, form or string body is sent unchanged with no Content-Type added; the body
\* executeWorkflow sends decodes to exactly its workflowId, uniqueId and input.
C29_JsonExactlyForPlainValues ==
  hpc # "idle" =>
    LET given == GivenBody
        plain == given.type = "object" /\ given.class = "Object" /\ ExplicitContentType = << >>
        added == HeadersGet(req.headers, "content-type") # ExplicitContentType
    IN /\ plain <=> (/\ added
                     /\ HeadersGet(req.headers, "content-type") = <<"application/json">>
                     /\ req.body = JSONstringify(given.value))
       /\ (given.class \in BinaryClasses \cup FormClasses \/ given.type = "string") =>
            (~added /\ req.body = given)
       /\ call.op = "executeWorkflow" =>
            /\ req.body.type = "string"
            /\ LET sent == JSONparse(req.body)
               IN /\ DOMAIN sent \subseteq {"workflowId", "uniqueId", "input"}
                  /\ \A f \in {"workflowId", "uniqueId", "input"} :
                       IF call.args[f].type = "undefined" THEN f \notin DOMAIN sent
                       ELSE f \in DOMAIN sent /\ sent[f] = call.args[f]

\* a request is in progress whose body is a URLSearchParams with no content-type given
C29_Witness ==
  /\ hpc = "fetching" /\ call.op = "request"
  /\ call.init.body.class = "URLSearchParams" /\ ExplicitContentType = << >>
  /\ HeadersGet(req.headers, "content-type") = <<"application/json">>
  /\ req.body = call.init.body

\* the two invocations in progress on the client: the running one and the suspended one
Invocations == IF inv.current = 0 THEN {} ELSE {Frame, inv.frame}

\* what a waitForCompletion invocation with locals f did follows from its own options, its
\* own signal and the statuses its own polls returned
OwnOutcome(f) ==
  LET o == destructure(f.call.options.fields, f.call.options.signal)
      stops(s) == s \in o.terminalSet \/ (s = "WAITING" /\ o.exitOnWaiting)
      n == Len(f.polled)
  IN /\ f.wpc # "idle" => f.wopts = o
     /\ f.updates = Collapse(f.polled)
     /\ \A k \in 1..(n - 1) : ~stops(f.polled[k])
     /\ f.wpc = "returned" =>
          n >= 1 /\ stops(f.polled[n]) /\ f.waitResult.body = [taskId |-> TaskId, status |-> f.polled[n]]
     /\ (f.wpc = "threw" /\ f.waitResult.error.statusText = "POLL_TIMEOUT") =>
          /\ n >= 1 /\ ~stops(f.polled[n])
          /\ f.waitResult.at - f.startedAt >= o.maxWaitTimeMs
          /\ f.waitResult.error.data = [taskId |-> TaskId, lastStatus |-> f.polled[n]]
     /\ (f.wpc = "threw" /\ f.waitResult.error.name = "AbortError") =>
          f.call.options.signal /\ f.signalAborted

\* C21: two waitForCompletion invocations interleaved on one client share no mutable state:
\* the callbacks each fires, the record it returns and its timeout or cancellation follow
\* from its own poll responses, its own options and its own signal.
C21_InvocationsIndependent ==
  \A f \in Invocations : f.call.op = "waitForCompletion" => OwnOutcome(f)

\* two interleaved waitForCompletion invocations ended differently: the running one
\* returned the WAITING record its options stop on, the other one timed out on its own
\* deadline after polls the first never saw
C21_Witness ==
  /\ inv.current # 0
  /\ call.op = "waitForCompletion" /\ inv.frame.call.op = "waitForCompletion"
  /\ wpc = "returned" /\ polled = <<"RUNNING", "RUNNING", "WAITING">> /\ updates = <<"RUNNING", "WAITING">>
  /\ inv.frame.wpc = "threw" /\ inv.frame.waitResult.error.statusText = "POLL_TIMEOUT"
  /\ inv.frame.polled = <<"WAITING", "RUNNING">>
  /\ inv.frame.updates = <<"WAITING", "RUNNING">>
  /\ startedAt < inv.frame.waitResult.at /\ inv.frame.startedAt < waitResult.at

\* the request in progress of an invocation with locals f runs under the retry policy and
\* the timeout its own call passed, and under the client's defaults where it passed none
OverridesOwn(f) ==
  f.hpc # "idle" =>
    LET own == IF f.call.op = "request" THEN f.call.init ELSE NoInit
        given == IF own.retry = << >> THEN EmptyObject ELSE own.retry[1]
    IN /\ \A k \in RetryFields : f.req.retry[k] = Nullish(given, k, client.defaultRetry[k])
       /\ f.req.timeoutMs = IF own.timeoutMs = << >> THEN client.defaultTimeout ELSE own.timeoutMs[1]

\* C26: no operation, in any interleaving of two invocations, changes the configuration
\* fixed at construction (base URL, API key, default headers, default timeout, default retry
\* policy); a retry or timeout passed to one call is in force for that call only.
C26_ConfigurationFixed ==
  /\ [](\A f \in Invocations : OverridesOwn(f))
  /\ [](client = WorkflowClient(client.options))
  /\ [][client' = client]_vars

\* a request() with a retry and a timeout of its own is in progress while a poll of a
\* waitForCompletion on the same client is in progress under the client's defaults
C26_Witness ==
  /\ inv.current # 0
  /\ call.op = "request" /\ hpc = "backoff" /\ req.retry.maxAttempts = 2 /\ req.timeoutMs = 5000
  /\ inv.frame.call.op = "waitForCompletion" /\ inv.frame.hpc = "fetching"
  /\ inv.frame.req.retry = client.defaultRetry /\ inv.frame.req.timeoutMs = client.defaultTimeout
  /\ client.defaultRetry.maxAttempts = 1

\* C31: a 2xx response whose JSON body cannot be parsed ends the request at once with a
\* WorkflowAPIError that carries the status and the headers of that response (not status 0):
\* no backoff sleep and no further attempt follow, whatever attempts remain and whatever
\* retryOnStatuses contains.
C31_ParseFailureNotRetried ==
  \A i \in 1..Len(responses) :
    ok(responses[i]) =>
      /\ i = Len(responses) /\ attempt = i
      /\ hpc \in {"returned", "threw"}
      /\ hpc = "threw" =>
           /\ reqResult.error.name = "WorkflowAPIError"
           /\ reqResult.error.status = responses[i]
           /\ reqResult.error.headers = << <<"content-type", "application/json">>, <<"x-request-id", "req-1">> >>
           /\ reqResult.error.cause = <<ErrorValue("SyntaxError", <<"Unexpected token">>)>>
           /\ Len(sleeps) = i - 1
           /\ "backoff" \notin timers

\* a 200 with an unparseable body answered attempt 2 of 3 under a policy that retries 200:
\* the request threw with status 200
C31_Witness ==
  /\ call.op = "request" /\ hpc = "threw"
  /\ req.retry.maxAttempts = 3 /\ 200 \in req.retry.retryOnStatuses
  /\ responses = <<500, 200>>
  /\ reqResult.error.status = 200

\* C32: in waitForCompletion the stop check comes before the timeout check and before the
\* next look at the signal: a poll that returns a stopping status makes waitForCompletion
\* return that record, also when the time elapsed is already at least maxWaitTimeMs and
\* also when the signal was aborted while that status request was in flight.
C32_StopCheckFirst ==
  [][(wpc = "polling" /\ hpc = "returned" /\ wpc' # "polling" /\ Stops(reqResult.body.status)) =>
       (wpc' = "returned" /\ waitResult'.body = reqResult.body /\ waitResult'.error = NoError)]_vars

\* waitForCompletion returned a record although the deadline had passed and the signal had
\* been aborted while the status request was in flight
C32_Witness ==
  /\ call.op = "waitForCompletion" /\ wpc = "returned"
  /\ wopts.signal /\ signalAborted
  /\ abortedWhile = [hpc |-> "fetching", wpc |-> "polling"]
  /\ wopts.maxWaitTimeMs = 2000 /\ waitResult.at - startedAt >= 2000
  /\ waitResult.body.status = "COMPLETED"

\* C33: waitForCompletion never fails with POLL_TIMEOUT before a status request has
\* completed; called with a valid taskId it settles without a poll only on a signal that is
\* aborted; with maxWaitTimeMs 0 it makes exactly one status request, and when that one
\* returns a record it returns it (stopping status) or fails with POLL_TIMEOUT.
C33_PollsBeforeTimeout ==
  /\ waitResult.error.statusText = "POLL_TIMEOUT" => Len(polled) >= 1 /\ statusCalls >= 1
  /\ call.op = "waitForCompletion" =>
       /\ (wpc \in {"returned", "threw"} /\ statusCalls = 0) =>
            \/ call.args.taskId # StringValue(TaskId)
            \/ call.options.signal /\ signalAborted /\ waitResult.error.name = "AbortError"
       /\ (wpc # "idle" /\ call.args.taskId = StringValue(TaskId)
             /\ Nullish(call.options.fields, "maxWaitTimeMs", -1) = 0) =>
            /\ statusCalls <= 1
            /\ Len(polled) = 1 =>
                 \/ wpc = "returned" /\ StopsCall(polled[1]) /\ waitResult.body.status = polled[1]
                 \/ wpc = "threw" /\ ~StopsCall(polled[1]) /\ waitResult.error.statusText = "POLL_TIMEOUT"

\* with maxWaitTimeMs 0 and a signal not aborted, waitForCompletion made its one status
\* request and timed out on the status it returned
C33_Witness ==
  /\ call.op = "waitForCompletion" /\ wpc = "threw"
  /\ Nullish(call.options.fields, "maxWaitTimeMs", -1) = 0
  /\ call.options.signal /\ ~signalAborted
  /\ statusCalls = 1 /\ polled = <<"PENDING">>
  /\ waitResult.error.statusText = "POLL_TIMEOUT"

\* C34: in executeAndWait with an onWaiting handler maxWaitTimeMs is measured for each
\* polling round from that round's own start: a round begins with startedAt at the time it
\* begins, after the earlier rounds and the handler, keeps it, and fails with POLL_TIMEOUT
\* only when the round itself has lasted at least maxWaitTimeMs; the total duration of
\* executeAndWait is not bounded by maxWaitTimeMs.
C34_DeadlinePerRound ==
  [][call.op = "executeAndWait" /\ call.options.onWaiting =>
       /\ Len(rounds') > Len(rounds) => (epc' = "round" /\ startedAt' = now')
       /\ (epc = "round" /\ epc' = "round" /\ Len(rounds') = Len(rounds)) => startedAt' = startedAt
       /\ (epc = "round" /\ wpc' = "threw" /\ wpc # "threw" /\ waitResult'.error.statusText = "POLL_TIMEOUT") =>
            /\ now' - startedAt >= wopts.maxWaitTimeMs
            /\ wopts.maxWaitTimeMs = Nullish(call.options.fields, "maxWaitTimeMs", DEFAULT_MAX_WAIT_TIME_MS)
       /\ (epc = "round" /\ wpc = "polling" /\ wpc' \notin {"polling", "threw", "returned"}) =>
            now' - startedAt < wopts.maxWaitTimeMs]_vars

\* executeAndWait with a handler and a maxWaitTimeMs of 2000 returned the completed task
\* from its second round, more than 2000 ms after it was called
C34_Witness ==
  /\ call.op = "executeAndWait" /\ call.options.onWaiting
  /\ Nullish(call.options.fields, "maxWaitTimeMs", -1) = 2000
  /\ epc = "returned" /\ Len(rounds) = 2 /\ Len(handlerCalls) = 1
  /\ execResult.body.status = "COMPLETED"
  /\ execResult.at > 2000 /\ execResult.at - startedAt < 2000

\* C35: in executeAndWait, when the handler has answered true the next round starts at once
\* with the status-change memory empty: no sleep timer, no timeout check and no passing of
\* time stand before its status request; when that request returns WAITING, onUpdate fires
\* for WAITING again, the round returns whatever time has passed, and the handler is called
\* again at once. While the task stays WAITING and the handler answers true, executeAndWait
\* neither returns nor times out, with one status request per handler call.
C35_WaitingLoopsAtOnce ==
  [][call.op = "executeAndWait" /\ call.options.onWaiting =>
       /\ (epc = "handler" /\ epc' # "handler" /\ continuePolling' /\ execResult' = NoResult) =>
            /\ epc' = "round" /\ wpc' = "loop"
            /\ lastStatus' = undefined /\ polled' = << >> /\ updates' = << >>
            /\ "sleep" \notin timers' /\ statusCalls' = statusCalls
       /\ (epc = "round" /\ wpc = "loop" /\ polled = << >> /\ statusCalls' = statusCalls + 1) =>
            now' = startedAt /\ "sleep" \notin timers
       /\ (epc = "round" /\ wpc = "polling" /\ hpc = "returned" /\ wpc' # "polling"
             /\ reqResult.body.status = WAITING) =>
            /\ wpc' = "returned" /\ waitResult'.body = reqResult.body
            /\ polled = << >> => updates' = <<WAITING>>
            /\ "sleep" \notin timers'
       /\ (epc = "round" /\ wpc = "returned" /\ epc' # "round" /\ waitResult.body.status = WAITING) =>
            /\ epc' = "handler" /\ now' = now
            /\ handlerCalls' = Append(handlerCalls, waitResult.body)
            /\ statusCalls' = statusCalls
       /\ epc' = "handler" =>
            /\ Len(handlerCalls') = Len(rounds') /\ statusCalls' >= Len(handlerCalls')
            /\ polled'[Len(polled')] = WAITING /\ execResult' = NoResult]_vars

\* the handler is called for the second time, for a WAITING that the one status request of
\* the second round returned, long after maxWaitTimeMs has passed since the call
C35_Witness ==
  /\ call.op = "executeAndWait" /\ call.options.onWaiting
  /\ Nullish(call.options.fields, "maxWaitTimeMs", -1) = 2000
  /\ epc = "handler" /\ Len(handlerCalls) = 2 /\ Len(rounds) = 2
  /\ polled = <<WAITING>> /\ updates = <<WAITING>>
  /\ statusCalls = 2 /\ now > 2000 /\ now - startedAt < 2000
  /\ ~signalAborted

\* C36: for every maxAttempts >= 1 the attempt loop of request() is left only by returning
\* a body or by throwing from inside an iteration: the iteration with attempt = maxAttempts
\* never goes on to a backoff sleep, attempt never passes maxAttempts, and the error
\* 'Exceeded maximum retry attempts' (RETRY_EXHAUSTED) is never thrown.
C36_RetryExhaustedUnreachable ==
  /\ \A r \in {reqResult, waitResult, execResult, methodResult} : r.error.statusText # "RETRY_EXHAUSTED"
  /\ hpc # "idle" =>
       /\ req.retry.maxAttempts >= 1
       /\ attempt \in 1..req.retry.maxAttempts
       /\ hpc = "backoff" => attempt < req.retry.maxAttempts
       /\ hpc = "threw" => Len(responses) = attempt
       /\ hpc = "returned" => Len(responses) = attempt /\ ok(responses[attempt])

\* the last of three attempts was answered with a retryable 500: request() threw from
\* inside that iteration
C36_Witness ==
  /\ call.op = "request" /\ hpc = "threw"
  /\ req.retry.maxAttempts = 3 /\ attempt = 3
  /\ responses = <<500, 500, 500>> /\ Len(sleeps) = 2
  /\ reqResult.error.status = 500

\* C37: once request() has settled it holds no 'abort' listener on the caller's signal: the
\* listener an attempt registers is removed when the attempt ends, whatever its outcome, so
\* the listeners on a signal never number more than the one of the attempt or sleep in
\* progress.
C37_NoListenerLeft ==
  /\ hpc \in {"returned", "threw"} => listeners.performRequest = 0
  /\ hpc \in {"idle", "backoff"} => listeners.performRequest = 0
  /\ listeners.performRequest <= 1
  /\ wpc # "sleeping" => listeners.sleep = 0
  /\ listeners.sleep <= 1

\* request() returned on its third attempt and the signal, never aborted, still carries the
\* listeners of all three attempts
C37_Witness ==
  /\ call.op = "request" /\ call.init.signal /\ ~signalAborted
  /\ hpc = "returned" /\ responses = <<500, 500, 200>>
  /\ listeners.performRequest = 3

\* C38: a retry override whose retryOnStatuses is an empty list does not disable the retries
\* on status: the set in force is the client-wide default set (the built-in one when the
\* client gives none), and a response with a status of that set, 500 among them, is
\* followed by a backoff sleep while attempts remain.
C38_EmptyStatusesFallBack ==
  (call.op = "request" /\ call.init.retry = <<[retryOnStatuses |-> {}]>> /\ hpc # "idle") =>
    /\ req.retry.retryOnStatuses =
         Nullish(IF client.options.retry = << >> THEN EmptyObject ELSE client.options.retry[1],
                 "retryOnStatuses", {408, 425, 429} \cup (500..599))
    /\ 500 \in req.retry.retryOnStatuses
    /\ \A i \in 1..Len(responses) :
         (responses[i] \in req.retry.retryOnStatuses /\ i < req.retry.maxAttempts) => Len(sleeps) >= i

\* under an override with an empty retryOnStatuses and client-wide statuses {400, 500}, a
\* 500 was retried after the client's delay and the second attempt returned
C38_Witness ==
  /\ call.op = "request" /\ call.init.retry = <<[retryOnStatuses |-> {}]>>
  /\ client.options.retry = <<[maxAttempts |-> 2, initialDelayMs |-> 100, retryOnStatuses |-> {400, 500}]>>
  /\ hpc = "returned" /\ responses = <<500, 200>> /\ sleeps = <<100>>

====
